---------------------------- MODULE Spec2Model ----------------------------
(***************************************************************************)
(* A model of the mrexo density-regression core:                           *)
(*   mrexo/mle_utils_nd.py  (the N-dimensional module, "N-D")              *)
(*   mrexo/mle_utils.py     (the mass-radius module, "2-D")                *)
(*                                                                         *)
(* Floating point values are modelled by exact rationals extended with the *)
(* IEEE specials: a number is a triple <<n, d, e>> standing for            *)
(* (n/d) * 10^e, with d > 0 and gcd(n, d) = 1 for a finite value,          *)
(* <<0, 0, 0>> for NaN and <<1, 0, 0>>, <<-1, 0, 0>> for +inf, -inf.       *)
(* Python's None is the empty tuple.  Arrays are sequences (1-based), so   *)
(* the Python index i is the model's index i + 1.                          *)
(***************************************************************************)
EXTENDS Integers, Sequences, FiniteSets, TLC

(***************************************************************************)
(* Extended rational arithmetic (float64 as used by numpy).                *)
(***************************************************************************)
Abs(i) == IF i < 0 THEN -i ELSE i

RECURSIVE Gcd(_, _)
Gcd(a, b) == IF b = 0 THEN a ELSE Gcd(b, a % b)

None == <<>>

NaN == <<0, 0, 0>>

Inf(s) == <<s, 0, 0>>

Sgn(i) == IF i > 0 THEN 1 ELSE IF i < 0 THEN -1 ELSE 0

\* n/d * 10^e in lowest terms; a zero numerator drops the exponent
QE(n, d, e) ==
    IF d = 0 THEN Inf(Sgn(n))
    ELSE IF n = 0 THEN <<0, 1, 0>>
    ELSE LET g == Gcd(Abs(n), Abs(d))
             s == Sgn(d)
         IN  <<s * (n \div g), s * (d \div g), e>>

Q(n, d) == QE(n, d, 0)

Zero == Q(0, 1)

One == Q(1, 1)

IsNone(x) == x = None

\* the predicates are FALSE of None (the code's own tests on None are
\* modelled where they are made)
IsNaN(x) == x # None /\ x[1] = 0 /\ x[2] = 0

IsInf(x) == x # None /\ x[1] # 0 /\ x[2] = 0

IsFinite(x) == x # None /\ x[2] # 0

\* numpy's  x == 0
IsZero(x) == x # None /\ x[1] = 0 /\ x[2] # 0

Neg(x) == <<-x[1], x[2], x[3]>>

Mul(x, y) ==
    IF IsNaN(x) \/ IsNaN(y) THEN NaN
    ELSE IF IsInf(x) \/ IsInf(y)
         THEN (IF IsZero(x) \/ IsZero(y) THEN NaN ELSE Inf(Sgn(x[1]) * Sgn(y[1])))
    ELSE LET g1 == Gcd(Abs(x[1]), y[2])
             g2 == Gcd(Abs(y[1]), x[2])
         IN  QE((x[1] \div g1) * (y[1] \div g2), (x[2] \div g2) * (y[2] \div g1),
                x[3] + y[3])

\* numpy division: x/0 is +-inf, 0/0 is NaN (a warning, not an exception)
Div(x, y) ==
    IF IsNaN(x) \/ IsNaN(y) THEN NaN
    ELSE IF IsInf(x) THEN (IF IsInf(y) THEN NaN
                           ELSE Inf(Sgn(x[1]) * (IF y[1] < 0 THEN -1 ELSE 1)))
    ELSE IF IsInf(y) THEN Zero
    ELSE IF IsZero(y) THEN (IF IsZero(x) THEN NaN ELSE Inf(Sgn(x[1])))
    ELSE LET g1 == Gcd(Abs(x[1]), Abs(y[1]))
             g2 == Gcd(x[2], y[2])
         IN  QE((x[1] \div g1) * (y[2] \div g2), (x[2] \div g2) * (y[1] \div g1),
                x[3] - y[3])

\* values whose exponents differ are 300 decades apart: the smaller one is
\* absorbed, as in float64
Add(x, y) ==
    IF IsNaN(x) \/ IsNaN(y) THEN NaN
    ELSE IF IsInf(x) THEN (IF IsInf(y) /\ x[1] # y[1] THEN NaN ELSE x)
    ELSE IF IsInf(y) THEN y
    ELSE IF IsZero(x) THEN y
    ELSE IF IsZero(y) THEN x
    ELSE IF x[3] = y[3]
         THEN LET g == Gcd(x[2], y[2])
              IN  QE(x[1] * (y[2] \div g) + y[1] * (x[2] \div g), (x[2] \div g) * y[2], x[3])
    ELSE IF x[3] > y[3] THEN x ELSE y

Sub(x, y) == Add(x, Neg(y))

\* n1/d1 < n2/d2 for d1, d2 > 0, by integer parts and then the reciprocals of
\* the fractional parts, so that no product is formed
RECURSIVE LtFrac(_, _, _, _)
LtFrac(n1, d1, n2, d2) ==
    LET q1 == n1 \div d1
        q2 == n2 \div d2
        r1 == n1 % d1
        r2 == n2 % d2
    IN  IF q1 # q2 THEN q1 < q2
        ELSE IF r2 = 0 THEN FALSE
        ELSE IF r1 = 0 THEN TRUE
        ELSE LtFrac(d2, r2, d1, r1)

\* x < y for finite values of one exponent; any comparison with NaN is false
Lt(x, y) ==
    /\ ~IsNaN(x)
    /\ ~IsNaN(y)
    /\ IF IsInf(x) \/ IsInf(y)
       THEN (IF IsInf(x) /\ IsInf(y) THEN x[1] < y[1]
             ELSE IF IsInf(x) THEN x[1] < 0 ELSE y[1] > 0)
       ELSE LtFrac(x[1], x[2], y[1], y[2])

Le(x, y) == Lt(x, y) \/ (~IsNaN(x) /\ x = y)

\* x ** k for an integer k >= 0; Python and numpy give 0 ** 0 = 1
RECURSIVE Pow(_, _)
Pow(x, k) == IF k = 0 THEN One ELSE Mul(x, Pow(x, k - 1))

\* the sum of s[lo..hi], by halves
RECURSIVE SumRange(_, _, _)
SumRange(s, lo, hi) ==
    IF lo > hi THEN Zero
    ELSE IF lo = hi THEN s[lo]
    ELSE LET mid == (lo + hi) \div 2
         IN  Add(SumRange(s, lo, mid), SumRange(s, mid + 1, hi))

SumSeq(s) == SumRange(s, 1, Len(s))

RECURSIVE factorial(_)
factorial(k) == IF k <= 0 THEN 1 ELSE k * factorial(k - 1)

\* a sequence given by a rule, evaluated once into its elements
Array(s) == SubSeq(s, 1, Len(s))

\* np.arange(lo, hi)
arange(lo, hi) == [k \in 1..(IF hi > lo THEN hi - lo ELSE 0) |-> lo + k - 1]


(***************************************************************************)
(* Bounds of the model.                                                    *)
(***************************************************************************)
\* largest polynomial degree handed to a basis evaluator on its own
MaxDegBasis == 5

\* most dimension records in InputData's list
MaxDim == 2

\* longest Data / SigmaLower / SigmaUpper array of a record
MaxLen == 2

\* most observations in a data set handed to calc_C_matrix
MaxN == 2

\* largest polynomial degree of a dimension of a fit
MaxDeg == 4

\* points of MLE_fit's DataSeq grid along each dimension (100 in the code)
GridN == 3

\* steps of the grid on which the root finder's answer is located
RootGrid == 4

(***************************************************************************)
(* External numeric library functions.                                     *)
(***************************************************************************)
\* np.log10 on the values the model feeds it: the powers of ten (exact), and
\* the IEEE cases.  A value outside the table stops the evaluation instead of
\* being approximated.
log10(x) ==
    CASE IsNaN(x) -> NaN
      [] IsInf(x) -> (IF x[1] > 0 THEN x ELSE NaN)
      [] IsZero(x) -> Inf(-1)
      [] IsFinite(x) /\ x[1] < 0 -> NaN
      [] x = Q(1, 10) -> Q(-1, 1)
      [] x = Q(1, 1) -> Q(0, 1)
      [] x = Q(10, 1) -> Q(1, 1)
      [] x = Q(100, 1) -> Q(2, 1)
      [] x = Q(1000, 1) -> Q(3, 1)
      [] x = Q(10000, 1) -> Q(4, 1)
      [] x = Q(100000, 1) -> Q(5, 1)

\* scipy.stats.beta.pdf for integer shapes: the density on [0, 1], 0 outside
beta_pdf(x, a, b) ==
    IF IsNaN(x) THEN NaN
    ELSE IF Lt(x, Zero) \/ Lt(One, x) THEN Zero
    ELSE Mul(Q(factorial(a + b - 1), factorial(a - 1) * factorial(b - 1)),
             Mul(Pow(x, a - 1), Pow(Sub(One, x), b - 1)))

\* What scipy.integrate.quad can hand back for the normal-times-beta
\* integrand, one value per basis index: a positive value, an underflow to
\* exactly 0 far from the observation, or both in one vector.  Each oracle
\* is one run of the integrator over the basis indices.
QuadOracles ==
    { [k \in 1..(MaxDegBasis + 1) |-> Q(1, k + 1)],
      [k \in 1..(MaxDegBasis + 1) |-> Zero],
      [k \in 1..(MaxDegBasis + 1) |-> IF k % 2 = 1 THEN Zero ELSE Q(1, k + 1)] }

\* quad(_pdfnorm_beta, ...)[0]: a zero scale makes the normal density 0/0 at
\* every node, so the integral is NaN; otherwise the oracle's value
quad(a_std, degree, oracle) ==
    IF IsNaN(a_std) \/ IsZero(a_std) THEN NaN ELSE oracle[degree]

(***************************************************************************)
(* N-D basis evaluator: mle_utils_nd.py                                    *)
(***************************************************************************)
_int_gamma_off(a) == factorial(a)

_int_gamma(a) == factorial(a - 1)

_beta_pdf(x, a, b) ==
    Div(Mul(Mul(Q(_int_gamma(a + b), 1), Pow(x, a - 1)), Pow(Sub(One, x), b - 1)),
        Q(_int_gamma(a) * _int_gamma(b), 1))

\* the value returned and the tolerance the quadrature ran with
integrate_function(data, data_std, deg, degree, a_max, a_min, Log, abs_tol, oracle) ==
    [val |-> quad(data_std, degree, oracle), epsabs |-> abs_tol]

\* the result of an evaluation: exc is "" unless the call raised
BasisResult(exc, branch, val, epsabs) ==
    [exc |-> exc, branch |-> branch,
     nquad |-> IF branch = "quad" THEN Len(val) ELSE 0,
     val |-> Array(val), epsabs |-> epsabs]

\* the evaluator with the NaN test lost: every uncertainty is integrated
_find_indv_pdf_always_quad(a, deg, deg_vec, a_max, a_min, a_std, abs_tol, Log, oracle) ==
    IF IsNone(a_std)
    THEN BasisResult("TypeError", "", <<>>, {})
    ELSE BasisResult("", "quad",
            [k \in 1..Len(deg_vec) |-> quad(a_std, deg_vec[k], oracle)], {abs_tol})

_find_indv_pdf(a, deg, deg_vec, a_max, a_min, a_std, abs_tol, Log, oracle) ==
    IF IsNone(a_std)
    THEN BasisResult("TypeError", "", <<>>, {})       \* np.isnan(None)
    ELSE IF IsNaN(a_std)
    THEN LET x == IF Log THEN Div(Sub(log10(a), a_min), Sub(a_max, a_min))
                  ELSE Div(Sub(a, a_min), Sub(a_max, a_min))
         IN  BasisResult("", "closed",
                [k \in 1..Len(deg_vec) |->
                    Div(_beta_pdf(x, deg_vec[k], deg - deg_vec[k] + 1),
                        Sub(a_max, a_min))], {})
    ELSE LET r == [k \in 1..Len(deg_vec) |->
                     integrate_function(a, a_std, deg, deg_vec[k], a_max, a_min,
                                        Log, abs_tol, oracle)]
         IN  BasisResult("", "quad", [k \in 1..Len(deg_vec) |-> r[k].val],
                         {r[k].epsabs : k \in 1..Len(deg_vec)})

(***************************************************************************)
(* 2-D basis evaluator: mle_utils.py                                       *)
(***************************************************************************)
integrate_function_2d(data, data_sd, deg, degree, x_max, x_min, Log, abs_tol, oracle) ==
    [val |-> quad(data_sd, degree, oracle), epsabs |-> abs_tol]

find_indv_pdf(x, deg, deg_vec, x_max, x_min, x_std, abs_tol, Log, oracle) ==
    IF IsNone(x_std)
    THEN BasisResult("", "closed",
            [k \in 1..Len(deg_vec) |->
                Div(beta_pdf(Div(Sub(x, x_min), Sub(x_max, x_min)),
                             deg_vec[k], deg - deg_vec[k] + 1),
                    Sub(x_max, x_min))], {})
    ELSE LET r == [k \in 1..Len(deg_vec) |->
                     integrate_function_2d(x, x_std, deg, deg_vec[k], x_max, x_min,
                                           Log, abs_tol, oracle)]
         IN  BasisResult("", "quad", [k \in 1..Len(deg_vec) |-> r[k].val],
                         {r[k].epsabs : k \in 1..Len(deg_vec)})


(***************************************************************************)
(* State.                                                                  *)
(***************************************************************************)
VARIABLES
    pc,      \* where the program is: "idle" before a call, "done" after it,
             \* or a position inside InputData / MLE_fit
    call,    \* the function being evaluated and its arguments
    ret,     \* what it returned, or the exception it raised
    loc,     \* local variables of the running function: InputData's d,
             \* ndim_data, ...; cond_density_quantile's sum
    numeric_work,  \* the dimensions InputData has copied, averaged and bounded
    cmat,    \* calc_C_matrix's local variables and its result
    fit      \* MLE_fit's local variables

vars == <<pc, call, ret, loc, numeric_work, cmat, fit>>

NoCall == [fn |-> ""]

NoRet == [exc |-> ""]

NoLocals == [d |-> 0]

NoMatrix == [C_pdf |-> <<>>]

NoFit == [ndim |-> 0]

Init ==
    /\ pc = "idle"
    /\ call = NoCall
    /\ ret = NoRet
    /\ loc = NoLocals
    /\ numeric_work = {}
    /\ cmat = NoMatrix
    /\ fit = NoFit

(***************************************************************************)
(* Evaluating a basis vector.                                              *)
(***************************************************************************)
\* observed values: on a bound, inside, and beyond the upper bound
BasisPoints == {Q(0, 1), Q(1, 2), Q(1, 1), Q(2, 1)}

\* linear values whose log10 is exact
PowersOfTen == {Q(1, 1), Q(10, 1), Q(100, 1)}

\* <<a_min, a_max>>; the last one is degenerate
BasisBounds == {<<Q(0, 1), Q(1, 1)>>, <<Q(0, 1), Q(2, 1)>>,
                <<Q(-1, 1), Q(3, 1)>>, <<Q(1, 1), Q(1, 1)>>}

\* absent, NaN, zero and a real uncertainty
Uncertainties == {None, NaN, Zero, Q(1, 10)}

\* an uncertainty with what the integrator returns for it; the integrator
\* is called with a value only for the last uncertainty
Integrations ==
    {<<sd, o>> \in Uncertainties \X QuadOracles :
        sd = Q(1, 10) \/ o = [k \in 1..(MaxDegBasis + 1) |-> Zero]}

\* abs_tol: 1e-8 (N-D default) and 1e-10 (2-D default)
Tolerances == {QE(1, 1, -8), QE(1, 1, -10)}

Eval_find_indv_pdf_nd ==
    /\ pc = "idle"
    /\ \E a \in BasisPoints \cup PowersOfTen, deg \in 1..MaxDegBasis, b \in BasisBounds,
          sd \in Uncertainties, tol \in Tolerances, lg \in BOOLEAN, o \in QuadOracles :
         \E dv \in {arange(1, deg + 1), arange(1, deg - 1)} :
            /\ IF lg THEN a \in PowersOfTen ELSE a \in BasisPoints
            /\ call' = [fn |-> "_find_indv_pdf", a |-> a, deg |-> deg, deg_vec |-> dv,
                        a_max |-> b[2], a_min |-> b[1], a_std |-> sd, abs_tol |-> tol,
                        Log |-> lg, oracle |-> o]
            /\ ret' = _find_indv_pdf(a, deg, dv, b[2], b[1], sd, tol, lg, o)
    /\ pc' = "done"
    /\ UNCHANGED <<loc, numeric_work, cmat, fit>>

Eval_find_indv_pdf_2d ==
    /\ pc = "idle"
    /\ \E a \in BasisPoints, deg \in 1..MaxDegBasis, b \in BasisBounds,
          sd \in Uncertainties, tol \in Tolerances, lg \in BOOLEAN, o \in QuadOracles :
         \E dv \in {arange(1, deg + 1)} :
            /\ call' = [fn |-> "find_indv_pdf", a |-> a, deg |-> deg, deg_vec |-> dv,
                        a_max |-> b[2], a_min |-> b[1], a_std |-> sd, abs_tol |-> tol,
                        Log |-> lg, oracle |-> o]
            /\ ret' = find_indv_pdf(a, deg, dv, b[2], b[1], sd, tol, lg, o)
    /\ pc' = "done"
    /\ UNCHANGED <<loc, numeric_work, cmat, fit>>

NextBasis == Eval_find_indv_pdf_nd \/ Eval_find_indv_pdf_2d

SpecBasis == Init /\ [][NextBasis]_vars

BasisCallDone == pc = "done" /\ call.fn \in {"find_indv_pdf", "_find_indv_pdf"}

\* C8, as stated: both evaluators take the closed-form branch and integrate
\* nothing whenever the uncertainty is None or NaN, and take the quadrature
\* branch, one integral per basis index, for every other uncertainty.
C8_ClosedFormWhenNoneOrNaN ==
    BasisCallDone =>
        IF IsNone(call.a_std) \/ IsNaN(call.a_std)
        THEN ret.exc = "" /\ ret.branch = "closed" /\ ret.nquad = 0
        ELSE ret.exc = "" /\ ret.branch = "quad" /\ ret.nquad = Len(call.deg_vec)

\* C8, amended: each evaluator has one "no uncertainty" value of its own.
\* find_indv_pdf (2-D) takes the closed-form branch, integrating nothing,
\* exactly when the uncertainty is None, and integrates once per basis index
\* for every other value, NaN included.  _find_indv_pdf (N-D) takes the
\* closed-form branch exactly when the uncertainty is NaN, integrates once
\* per basis index for a real value, and raises on None.
C8_BranchPerEvaluator ==
    BasisCallDone =>
        IF call.fn = "find_indv_pdf"
        THEN IF IsNone(call.a_std)
             THEN ret.exc = "" /\ ret.branch = "closed" /\ ret.nquad = 0
             ELSE ret.exc = "" /\ ret.branch = "quad"
                  /\ ret.nquad = Len(call.deg_vec)
        ELSE IF IsNone(call.a_std)
             THEN ret.exc = "TypeError" /\ ret.nquad = 0
             ELSE IF IsNaN(call.a_std)
             THEN ret.exc = "" /\ ret.branch = "closed" /\ ret.nquad = 0
             ELSE ret.exc = "" /\ ret.branch = "quad"
                  /\ ret.nquad = Len(call.deg_vec)

\* the N-D evaluator was given NaN for a degree-4 basis and integrated nothing
C8_Witness ==
    /\ BasisCallDone
    /\ call.fn = "_find_indv_pdf"
    /\ IsNaN(call.a_std)
    /\ Len(call.deg_vec) = 4
    /\ ret.branch = "closed"
    /\ ret.nquad = 0

\* deg!/((d-1)!(deg-d)!) * x^(d-1) * (1-x)^(deg-d) / width
AnalyticBeta(deg, d, x, width) ==
    Div(Mul(Q(factorial(deg), factorial(d - 1) * factorial(deg - d)),
            Mul(Pow(x, d - 1), Pow(Sub(One, x), deg - d))),
        width)

\* C9: a noise-free N-D basis evaluation equals the analytic Beta density
\* deg!/((d-1)!(deg-d)!) x^(d-1) (1-x)^(deg-d) / (max-min) at the normalized
\* position x, for every basis index d; for degree 5, d = 3, domain [0,1] and
\* x = 1/2 it is 15/8 = 1.875.
C9_ClosedFormIsAnalyticBeta ==
    (pc = "done" /\ call.fn = "_find_indv_pdf" /\ ret.branch = "closed") =>
        LET width == Sub(call.a_max, call.a_min)
            pos == IF call.Log THEN log10(call.a) ELSE call.a
            x == Div(Sub(pos, call.a_min), width)
        IN  /\ \A k \in 1..Len(call.deg_vec) :
                 ret.val[k] = AnalyticBeta(call.deg, call.deg_vec[k], x, width)
            /\ (/\ call.deg = 5
                /\ Len(call.deg_vec) = 5
                /\ call.a_min = Q(0, 1)
                /\ call.a_max = Q(1, 1)
                /\ x = Q(1, 2)) => ret.val[3] = Q(15, 8)

\* degree 5, index 3, domain [0,1], value 0.5, no uncertainty
C9_Witness ==
    /\ pc = "done"
    /\ call.fn = "_find_indv_pdf"
    /\ ret.branch = "closed"
    /\ call.deg = 5
    /\ call.deg_vec = arange(1, 6)
    /\ call.a_min = Q(0, 1)
    /\ call.a_max = Q(1, 1)
    /\ call.a = Q(1, 2)
    /\ ~call.Log
    /\ ret.val[3] = Q(15, 8)


(***************************************************************************)
(* InputData: mle_utils_nd.py                                              *)
(***************************************************************************)
RECURSIVE MinSeq(_)
MinSeq(s) ==
    IF Len(s) = 1 THEN s[1]
    ELSE LET m == MinSeq(Tail(s)) IN IF Lt(s[1], m) THEN s[1] ELSE m

RECURSIVE MaxSeq(_)
MaxSeq(s) ==
    IF Len(s) = 1 THEN s[1]
    ELSE LET m == MaxSeq(Tail(s)) IN IF Lt(m, s[1]) THEN s[1] ELSE m

AbsQ(x) == IF IsFinite(x) /\ x[1] < 0 THEN Neg(x) ELSE IF IsInf(x) THEN Inf(1) ELSE x

\* np.zeros((rows, cols))
zeros(rows, cols) == [r \in 1..rows |-> [c \in 1..cols |-> Zero]]

\* 10^k for k >= 0
RECURSIVE TenTo(_)
TenTo(k) == IF k = 0 THEN 1 ELSE 10 * TenTo(k - 1)

\* The measurements of dimension dm (0-based): the first observation is
\* 5050/99 +- 3950/99 and the later ones (40+i) +- 5, all times 10^dm, so
\* that 0.9 * min|data - sigma| = 10^(dm+1) and 1.1 * max(data + sigma) =
\* 10^(dm+2) have exact logarithms.  Lower uncertainties are negative, as
\* catalogues give them.
DataValues(dm, len) ==
    [i \in 1..len |-> IF i = 1 THEN Q(5050 * TenTo(dm), 99) ELSE Q((40 + i) * TenTo(dm), 1)]

SigmaUpperValues(dm, len) ==
    [i \in 1..len |-> IF i = 1 THEN Q(3950 * TenTo(dm), 99) ELSE Q(5 * TenTo(dm), 1)]

SigmaLowerValues(dm, len) == [i \in 1..len |-> Neg(SigmaUpperValues(dm, len)[i])]

Chars == <<"m", "r", "p", "q">>

\* an explicit lower and upper bound
ExplicitMin == Q(-1, 2)

ExplicitMax == Q(7, 2)

MinKinds == {None, NaN, ExplicitMin}

MaxKinds == {None, NaN, ExplicitMax}

DimensionRecord(dm, lenD, lenL, lenU, mn, mx) ==
    [Data |-> DataValues(dm, lenD), SigmaLower |-> SigmaLowerValues(dm, lenL),
     SigmaUpper |-> SigmaUpperValues(dm, lenU), Min |-> mn, Max |-> mx,
     Label |-> Chars[dm + 1], Char |-> Chars[dm + 1]]

\* The lists InputData is called with.  In the first family every record
\* holds n measurements except record f, whose three arrays have any
\* lengths, and record g (when g # f), whose arrays have length m; all
\* records have one kind of bounds.  In the second family the arrays have
\* one length and every record has its own kinds of bounds.
InputLists ==
    UNION { { [k \in 1..nd |->
                 IF k = f THEN DimensionRecord(k - 1, t[1], t[2], t[3], b[1], b[2])
                 ELSE IF k = g THEN DimensionRecord(k - 1, m, m, m, b[1], b[2])
                 ELSE DimensionRecord(k - 1, n, n, n, b[1], b[2])] :
                n \in 1..MaxLen, m \in 1..MaxLen, f \in 1..nd, g \in 1..nd,
                t \in (1..MaxLen) \X (1..MaxLen) \X (1..MaxLen),
                b \in {<<None, None>>, <<NaN, NaN>>, <<ExplicitMin, ExplicitMax>>} }
            \cup
            { [k \in 1..nd |-> DimensionRecord(k - 1, n, n, n, b[k][1], b[k][2])] :
                n \in 1..MaxLen, b \in [1..nd -> MinKinds \X MaxKinds] }
          : nd \in 1..MaxDim }

\* lines 39-46
InputData_Enter ==
    /\ pc = "idle"
    /\ \E L \in InputLists :
        /\ call' = [fn |-> "InputData", ListofDictionaries |-> L]
        /\ loc' = [d |-> 0,
                   ndim |-> Len(L),
                   ndim_data |-> zeros(Len(L), Len(L[1].Data)),
                   ndim_sigmaL |-> zeros(Len(L), Len(L[1].SigmaLower)),
                   ndim_sigmaU |-> zeros(Len(L), Len(L[1].SigmaUpper)),
                   ndim_sigma |-> zeros(Len(L), Len(L[1].SigmaUpper)),
                   ndim_bounds |-> zeros(Len(L), 2),
                   ndim_char |-> <<>>,
                   ndim_label |-> <<>>]
    /\ pc' = "InputData_loop"
    /\ UNCHANGED <<ret, numeric_work, cmat, fit>>

\* the five assertions of lines 49-53 on record r against the arrays lc
AssertsHold_dim0_only(r, lc) ==
    lc.d = 0 =>
        /\ Len(r.Data) = Len(lc.ndim_data[1])
        /\ Len(r.SigmaLower) = Len(lc.ndim_sigmaL[1])
        /\ Len(r.SigmaUpper) = Len(lc.ndim_sigmaU[1])
        /\ Len(r.SigmaUpper) = Len(r.SigmaLower)
        /\ Len(r.Data) = Len(r.SigmaLower)

AssertsHold(r, lc) ==
    /\ Len(r.Data) = Len(lc.ndim_data[1])
    /\ Len(r.SigmaLower) = Len(lc.ndim_sigmaL[1])
    /\ Len(r.SigmaUpper) = Len(lc.ndim_sigmaU[1])
    /\ Len(r.SigmaUpper) = Len(r.SigmaLower)
    /\ Len(r.Data) = Len(r.SigmaLower)

\* numpy assigns a row only a value of the row's length (or one it can
\* broadcast); the assertions leave no other
RowsFit(r, lc) ==
    /\ Len(r.Data) = Len(lc.ndim_data[1])
    /\ Len(r.SigmaLower) = Len(lc.ndim_sigmaL[1])
    /\ Len(r.SigmaUpper) = Len(lc.ndim_sigmaU[1])
    /\ Len(r.SigmaUpper) = Len(lc.ndim_sigma[1])
    /\ Len(r.Data) = Len(r.SigmaUpper)

\* line 58
AverageSigma(sL, sU) ==
    [i \in 1..Len(sL) |-> Div(Add(AbsQ(sL[i]), AbsQ(sU[i])), Q(2, 1))]

\* line 63
AutoMin(data, sigma) ==
    log10(Mul(Q(9, 10), MinSeq([i \in 1..Len(data) |-> AbsQ(Sub(data[i], sigma[i]))])))

\* line 68
AutoMax(data, sigma) ==
    log10(Mul(Q(11, 10), MaxSeq([i \in 1..Len(data) |-> Add(data[i], sigma[i])])))

\* one pass of the loop of lines 48-72, for dimension loc.d
InputData_Iterate ==
    /\ pc = "InputData_loop"
    /\ loc.d < loc.ndim
    /\ LET r == call.ListofDictionaries[loc.d + 1]
           row == loc.d + 1
           sigma == AverageSigma(r.SigmaLower, r.SigmaUpper)
           copied == [loc EXCEPT !.ndim_data[row] = r.Data,
                                 !.ndim_sigmaL[row] = r.SigmaLower,
                                 !.ndim_sigmaU[row] = r.SigmaUpper,
                                 !.ndim_sigma[row] = sigma,
                                 !.ndim_char = Append(@, r.Char),
                                 !.ndim_label = Append(@, r.Label)]
       IN  IF ~AssertsHold(r, loc)
           THEN /\ ret' = [exc |-> "AssertionError"]
                /\ pc' = "done"
                /\ UNCHANGED <<loc, numeric_work, cmat, fit>>
           ELSE IF ~RowsFit(r, loc)
           THEN /\ ret' = [exc |-> "ValueError"]
                /\ pc' = "done"
                /\ numeric_work' = numeric_work \cup {loc.d}
                /\ UNCHANGED loc
           ELSE IF IsNone(r.Min) \/ IsNone(r.Max)
           THEN \* np.isfinite(None), line 62 or 67
                /\ ret' = [exc |-> "TypeError"]
                /\ pc' = "done"
                /\ numeric_work' = numeric_work \cup {loc.d}
                /\ loc' = copied
           ELSE LET Min == IF ~IsFinite(r.Min) THEN AutoMin(r.Data, sigma) ELSE r.Min
                    Max == IF ~IsFinite(r.Max) THEN AutoMax(r.Data, sigma) ELSE r.Max
                IN  /\ loc' = [copied EXCEPT !.ndim_bounds[row] = <<Min, Max>>,
                                             !.d = loc.d + 1]
                    /\ numeric_work' = numeric_work \cup {loc.d}
                    /\ UNCHANGED <<pc, ret>>
    /\ UNCHANGED <<call, cmat, fit>>

\* lines 74-84
InputData_Return ==
    /\ pc = "InputData_loop"
    /\ loc.d = loc.ndim
    /\ ret' = [exc |-> "",
               DataDict |-> [ndim_data |-> loc.ndim_data,
                             ndim_sigma |-> loc.ndim_sigma,
                             ndim_sigmaL |-> loc.ndim_sigmaL,
                             ndim_sigmaU |-> loc.ndim_sigmaU,
                             ndim_bounds |-> loc.ndim_bounds,
                             ndim_char |-> loc.ndim_char,
                             ndim_label |-> loc.ndim_label,
                             ndim |-> loc.ndim,
                             DataLength |-> Len(loc.ndim_data[1])]]
    /\ pc' = "done"
    /\ UNCHANGED <<call, loc, numeric_work, cmat, fit>>

NextInput == InputData_Enter \/ InputData_Iterate \/ InputData_Return

SpecInput == Init /\ [][NextInput]_vars

InputDataDone == pc = "done" /\ call.fn = "InputData"

\* record k's three arrays all have the length of dimension 0's Data
LengthsMatch(L, k) ==
    /\ Len(L[k].Data) = Len(L[1].Data)
    /\ Len(L[k].SigmaLower) = Len(L[1].Data)
    /\ Len(L[k].SigmaUpper) = Len(L[1].Data)

LengthsAllEqual(L) == \A k \in 1..Len(L) : LengthsMatch(L, k)

\* the first dimension (0-based) whose lengths do not match
FirstOffender(L) ==
    CHOOSE f \in 0..(Len(L) - 1) :
        /\ ~LengthsMatch(L, f + 1)
        /\ \A k \in 1..f : LengthsMatch(L, k)

HasNoneBound(L) == \E k \in 1..Len(L) : IsNone(L[k].Min) \/ IsNone(L[k].Max)

\* C5: InputData fails whenever some dimension's Data, SigmaLower and
\* SigmaUpper lengths are not all equal to each other and to the length of
\* dimension 0's Data; when all lengths are equal it returns a DataDict with
\* ndim = number of records and DataLength = the common length.
C5_FailsIffLengthsDiffer ==
    InputDataDone =>
        LET L == call.ListofDictionaries
        IN  IF LengthsAllEqual(L)
            THEN /\ ret.exc = ""
                 /\ ret.DataDict.ndim = Len(L)
                 /\ ret.DataDict.DataLength = Len(L[1].Data)
            ELSE ret.exc # ""

\* What holds of the code for C5: a mismatch always fails, and equal lengths
\* return the DataDict unless a bound is None.
C5_HoldsButForNoneBounds ==
    InputDataDone =>
        LET L == call.ListofDictionaries
        IN  IF LengthsAllEqual(L)
            THEN IF HasNoneBound(L)
                 THEN ret.exc = "TypeError"
                 ELSE /\ ret.exc = ""
                      /\ ret.DataDict.ndim = Len(L)
                      /\ ret.DataDict.DataLength = Len(L[1].Data)
            ELSE ret.exc # ""

\* C6, as stated: when any dimension's arrays have mismatched lengths,
\* InputData fails before any numeric work has been done for any dimension,
\* the dimensions before the offending one included.  (Stated of the runs
\* that end in the length assertion.)
C6_FailsBeforeAnyNumericWork ==
    (InputDataDone /\ ~LengthsAllEqual(call.ListofDictionaries)
        /\ ret.exc = "AssertionError") => numeric_work = {}

\* C6, amended: when some dimension's arrays have mismatched lengths,
\* InputData fails and returns no DataDict, and it does no numeric work for
\* the first offending dimension or any later one.  Unless it already failed
\* on an earlier dimension, it raises the assertion error on reaching the
\* first offending dimension f, when the numeric work of dimensions 0..f-1
\* has been done.
C6_NoWorkFromFirstOffenderOn ==
    (InputDataDone /\ ~LengthsAllEqual(call.ListofDictionaries)) =>
        LET f == FirstOffender(call.ListofDictionaries)
        IN  /\ ret.exc # ""
            /\ numeric_work \subseteq 0..(f - 1)
            /\ IF ret.exc = "AssertionError"
               THEN loc.d = f /\ numeric_work = 0..(f - 1)
               ELSE loc.d < f /\ numeric_work = 0..loc.d

\* dimension 1 is the offender: dimension 0 was worked on, dimension 1 not
C6_Witness ==
    /\ InputDataDone
    /\ Len(call.ListofDictionaries) = 2
    /\ LengthsMatch(call.ListofDictionaries, 1)
    /\ ~LengthsMatch(call.ListofDictionaries, 2)
    /\ ret.exc = "AssertionError"
    /\ loc.d = 1
    /\ numeric_work = {0}

\* the bounds the claim expects of a record: an explicit finite bound as
\* given, an absent one computed from the data and the averaged uncertainty
ExpectedBounds(r) ==
    LET sigma == AverageSigma(r.SigmaLower, r.SigmaUpper)
    IN  <<IF IsFinite(r.Min) THEN r.Min ELSE AutoMin(r.Data, sigma),
          IF IsFinite(r.Max) THEN r.Max ELSE AutoMax(r.Data, sigma)>>

\* C7: for each dimension record, an explicitly supplied finite Min (Max) is
\* the lower (upper) bound unchanged, and an absent bound (None) is computed
\* from the data and the averaged uncertainty instead of failing; the
\* ndim_bounds row is [Min, Max].
C7_BoundsExplicitOrAuto ==
    (InputDataDone /\ LengthsAllEqual(call.ListofDictionaries)) =>
        /\ ret.exc = ""
        /\ \A k \in 1..Len(call.ListofDictionaries) :
              ret.DataDict.ndim_bounds[k] = ExpectedBounds(call.ListofDictionaries[k])

\* What holds of the code for C7: explicit bounds are kept and NaN bounds
\* are computed; a None bound raises.
C7_HoldsButForNoneBounds ==
    (InputDataDone /\ LengthsAllEqual(call.ListofDictionaries)) =>
        IF HasNoneBound(call.ListofDictionaries)
        THEN ret.exc = "TypeError"
        ELSE /\ ret.exc = ""
             /\ \A k \in 1..Len(call.ListofDictionaries) :
                   ret.DataDict.ndim_bounds[k] = ExpectedBounds(call.ListofDictionaries[k])


(***************************************************************************)
(* Design matrix: calc_C_matrix of both modules                            *)
(***************************************************************************)
\* np.kron of two vectors
Kron(a, b) ==
    Array([q \in 1..(Len(a) * Len(b)) |->
        Mul(a[((q - 1) \div Len(b)) + 1], b[((q - 1) % Len(b)) + 1])])

\* np.kron of two matrices (sequences of rows)
Kron2(A, B) ==
    [q \in 1..(Len(A) * Len(B)) |->
        [c \in 1..(Len(A[1]) * Len(B[1])) |->
            Mul(A[((q - 1) \div Len(B)) + 1][((c - 1) \div Len(B[1])) + 1],
                B[((q - 1) % Len(B)) + 1][((c - 1) % Len(B[1])) + 1])]]

\* M.T of a matrix with at least one row
Transpose(M) == [c \in 1..Len(M[1]) |-> [r \in 1..Len(M) |-> M[r][c]]]

\* the floor constant 1e-300
Floor == QE(1, 1, -300)

\* C_pdf[C_pdf == 0] = 1e-300
MaskZero(M) ==
    [r \in 1..Len(M) |-> [c \in 1..Len(M[r]) |-> IF IsZero(M[r][c]) THEN Floor ELSE M[r][c]]]

\* C_pdf[np.where(np.isnan(C_pdf))] = 1e-300
MaskNaN(M) ==
    [r \in 1..Len(M) |-> [c \in 1..Len(M[r]) |-> IF IsNaN(M[r][c]) THEN Floor ELSE M[r][c]]]

\* the flooring with its second statement lost
FloorMatrix_zero_only(M) == MaskZero(M)

\* lines 258-260 (N-D), 214-216 (2-D)
FloorMatrix(M) == MaskNaN(MaskZero(M))

RECURSIVE Product(_)
Product(s) == IF s = <<>> THEN 1 ELSE Head(s) * Product(Tail(s))

\* the N-D evaluator's default tolerance (its abs_tol parameter)
DefaultAbsTol == QE(1, 1, -8)

\* kron_temp after the dimensions 1..dim of observation i (lines 244-253)
RECURSIVE KronTemp(_, _, _)
KronTemp(indv, i, dim) ==
    IF dim = 0 THEN <<One>> ELSE Kron(indv[dim][i], KronTemp(indv, i, dim - 1))

\* N-D calc_C_matrix, lines 226-264: its locals and what it returns
calc_C_matrix(DataDict, deg_per_dim, abs_tol, Log, oracle) ==
    LET ndim == DataDict.ndim
        n == DataDict.DataLength
        deg_vec_per_dim == [dim \in 1..ndim |-> arange(1, deg_per_dim[dim] - 1)]
        deg_product == Product([dim \in 1..ndim |-> deg_per_dim[dim] - 2])
        evals == [dim \in 1..ndim |-> [i \in 1..n |->
                    _find_indv_pdf(DataDict.ndim_data[dim][i], deg_per_dim[dim],
                                   deg_vec_per_dim[dim], DataDict.ndim_bounds[dim][2],
                                   DataDict.ndim_bounds[dim][1], DataDict.ndim_sigma[dim][i],
                                   DefaultAbsTol, Log, oracle)]]
        indv_pdf_per_dim == [dim \in 1..ndim |-> [i \in 1..n |-> evals[dim][i].val]]
        built == [i \in 1..n |-> KronTemp(indv_pdf_per_dim, i, ndim)]
    IN  [indv_pdf_per_dim |-> indv_pdf_per_dim,
         deg_vec_per_dim |-> deg_vec_per_dim,
         deg_product |-> deg_product,
         branches |-> [dim \in 1..ndim |-> [i \in 1..n |-> evals[dim][i].branch]],
         epsabs |-> UNION {evals[dim][i].epsabs : dim \in 1..ndim, i \in 1..n},
         C_built |-> built,
         C_T |-> Transpose(built),
         C_pdf |-> FloorMatrix(Transpose(built))]

\* 2-D calc_C_matrix, lines 186-218.  Without Mass_sigma the evaluator is
\* handed the whole arrays M and R and returns one row per basis index.
calc_C_matrix_2d(n, deg, M, Mass_sigma, Mass_max, Mass_min, R, Radius_sigma, Radius_max, Radius_min, abs_tol, Log, oracle) ==
    LET deg_vec == arange(1, deg + 1)
    IN  IF IsNone(Mass_sigma)
        THEN LET M_indv_pdf == [k \in 1..deg |-> [i \in 1..n |->
                    find_indv_pdf(M[i], deg, deg_vec, Mass_max, Mass_min, None,
                                  abs_tol, Log, oracle).val[k]]]
                 R_indv_pdf == [k \in 1..deg |-> [i \in 1..n |->
                    find_indv_pdf(R[i], deg, deg_vec, Radius_max, Radius_min, None,
                                  abs_tol, Log, oracle).val[k]]]
                 built == Kron2(M_indv_pdf, R_indv_pdf)
             IN  [M_indv_pdf |-> M_indv_pdf, R_indv_pdf |-> R_indv_pdf,
                  epsabs |-> {},
                  C_built |-> built,
                  C_T |-> Transpose(built),
                  C_pdf |-> FloorMatrix(Transpose(built))]
        ELSE LET Me == [i \in 1..n |->
                    find_indv_pdf(M[i], deg, deg_vec, Mass_max, Mass_min, Mass_sigma[i],
                                  abs_tol, Log, oracle)]
                 Re == [i \in 1..n |->
                    find_indv_pdf(R[i], deg, deg_vec, Radius_max, Radius_min,
                                  Radius_sigma[i], abs_tol, Log, oracle)]
                 M_indv_pdf == [i \in 1..n |-> Me[i].val]
                 R_indv_pdf == [i \in 1..n |-> Re[i].val]
                 built == [i \in 1..n |-> Kron(M_indv_pdf[i], R_indv_pdf[i])]
             IN  [M_indv_pdf |-> M_indv_pdf, R_indv_pdf |-> R_indv_pdf,
                  epsabs |-> UNION {Me[i].epsabs \cup Re[i].epsabs : i \in 1..n},
                  C_built |-> built,
                  C_T |-> Transpose(built),
                  C_pdf |-> FloorMatrix(Transpose(built))]

(***************************************************************************)
(* Data sets for the design matrix.  An observation is one of ObsKinds: a  *)
(* position in the bounds [0, 2] (as a base-10 logarithm) and an           *)
(* uncertainty: NaN (none, closed form), 0 (the integral is NaN) or 1/10.  *)
(* Dimension dim of an observation of kind k holds kind k + dim - 1, so    *)
(* the dimensions of one observation differ.                               *)
(***************************************************************************)
ObsKinds ==
    << [p |-> 0, s |-> NaN], [p |-> 1, s |-> NaN], [p |-> 2, s |-> NaN],
       [p |-> 1, s |-> Zero], [p |-> 1, s |-> Q(1, 10)] >>

KindOf(k, dim) == ObsKinds[((k + dim - 2) % Len(ObsKinds)) + 1]

DesignBounds == <<Zero, Q(2, 1)>>

\* the DataDict InputData returns for these observations (lines 74-84)
DesignDataDict(kinds, ndim, Log) ==
    [ndim |-> ndim,
     DataLength |-> Len(kinds),
     ndim_data |-> [dim \in 1..ndim |-> [i \in 1..Len(kinds) |->
                      IF Log THEN Q(TenTo(KindOf(kinds[i], dim).p), 1)
                      ELSE Q(KindOf(kinds[i], dim).p, 1)]],
     ndim_sigma |-> [dim \in 1..ndim |-> [i \in 1..Len(kinds) |-> KindOf(kinds[i], dim).s]],
     ndim_bounds |-> [dim \in 1..ndim |-> DesignBounds]]

\* the kinds of n observations: the first is any kind and each next one is
\* a fixed number of kinds further
DesignKinds(n) ==
    {[i \in 1..n |-> ((k0 - 1 + (i - 1) * step) % Len(ObsKinds)) + 1] :
        k0 \in 1..Len(ObsKinds), step \in 0..(Len(ObsKinds) - 1)}

Eval_calc_C_matrix_nd ==
    /\ pc = "idle"
    /\ \E ndim \in 1..MaxDim, n \in 1..MaxN, lg \in BOOLEAN, o \in QuadOracles :
         \E kinds \in DesignKinds(n), degs \in [1..ndim -> 3..MaxDeg] :
            LET DataDict == DesignDataDict(kinds, ndim, lg)
                tol == DefaultAbsTol
                r == calc_C_matrix(DataDict, degs, tol, lg, o)
            IN  /\ call' = [fn |-> "calc_C_matrix", module |-> "mle_utils_nd",
                            n |-> n, DataDict |-> DataDict, deg_per_dim |-> degs,
                            abs_tol |-> tol, Log |-> lg, oracle |-> o, noisy |-> TRUE]
                /\ cmat' = r
                /\ ret' = [exc |-> "", C_pdf |-> cmat'.C_pdf]
    /\ pc' = "done"
    /\ UNCHANGED <<loc, numeric_work, fit>>

Eval_calc_C_matrix_2d ==
    /\ pc = "idle"
    /\ \E n \in 1..MaxN, deg \in 1..MaxDeg, tol \in Tolerances, o \in QuadOracles,
          noisy \in BOOLEAN :
         \E kinds \in DesignKinds(n) :
            LET lg == TRUE
                M == [i \in 1..n |-> Q(KindOf(kinds[i], 1).p, 1)]
                R == [i \in 1..n |-> Q(KindOf(kinds[i], 2).p, 1)]
                Mass_sigma == IF noisy THEN [i \in 1..n |-> KindOf(kinds[i], 1).s] ELSE None
                Radius_sigma == IF noisy THEN [i \in 1..n |-> KindOf(kinds[i], 2).s] ELSE None
                r == calc_C_matrix_2d(n, deg, M, Mass_sigma, DesignBounds[2], DesignBounds[1],
                                      R, Radius_sigma, DesignBounds[2], DesignBounds[1],
                                      tol, lg, o)
            IN  /\ call' = [fn |-> "calc_C_matrix", module |-> "mle_utils",
                            n |-> n, deg |-> deg, deg_per_dim |-> <<deg, deg>>,
                            M |-> M, R |-> R,
                            Mass_sigma |-> Mass_sigma, Radius_sigma |-> Radius_sigma,
                            abs_tol |-> tol, Log |-> lg, oracle |-> o, noisy |-> noisy]
                /\ cmat' = r
                /\ ret' = [exc |-> "", C_pdf |-> cmat'.C_pdf]
    /\ pc' = "done"
    /\ UNCHANGED <<loc, numeric_work, fit>>

NextDesign == Eval_calc_C_matrix_nd \/ Eval_calc_C_matrix_2d

SpecDesign == Init /\ [][NextDesign]_vars

DesignDone == pc = "done" /\ call.fn = "calc_C_matrix"

\* C1: after calc_C_matrix (either module) returns, no entry of the design
\* matrix is exactly zero or NaN: an entry whose computed value was exactly
\* zero or NaN is the floor constant 1e-300, and every other entry keeps
\* its computed value.
C1_FlooredNoZeroNoNaN ==
    DesignDone =>
        /\ Len(ret.C_pdf) = Len(cmat.C_T)
        /\ \A r \in 1..Len(ret.C_pdf) :
             /\ Len(ret.C_pdf[r]) = Len(cmat.C_T[r])
             /\ \A c \in 1..Len(ret.C_pdf[r]) :
                  LET before == cmat.C_T[r][c]
                      after == ret.C_pdf[r][c]
                  IN  /\ after # Zero
                      /\ after # NaN
                      /\ (before = Zero \/ before = NaN) => after = QE(1, 1, -300)
                      /\ (before # Zero /\ before # NaN) => after = before

\* one returned matrix in which a zero and a NaN were floored and a
\* positive value was kept
C1_Witness ==
    /\ DesignDone
    /\ \E r \in 1..Len(ret.C_pdf) : \E c \in 1..Len(ret.C_pdf[r]) :
         cmat.C_T[r][c] = Zero /\ ret.C_pdf[r][c] = QE(1, 1, -300)
    /\ \E r \in 1..Len(ret.C_pdf) : \E c \in 1..Len(ret.C_pdf[r]) :
         cmat.C_T[r][c] = NaN /\ ret.C_pdf[r][c] = QE(1, 1, -300)
    /\ \E r \in 1..Len(ret.C_pdf) : \E c \in 1..Len(ret.C_pdf[r]) :
         Lt(Zero, cmat.C_T[r][c]) /\ ret.C_pdf[r][c] = cmat.C_T[r][c]

\* observation i's basis vector of dimension dim, as calc_C_matrix holds it
BasisVector(dim, i) ==
    IF call.module = "mle_utils_nd" THEN cmat.indv_pdf_per_dim[dim][i]
    ELSE IF call.noisy THEN (IF dim = 1 THEN cmat.M_indv_pdf[i] ELSE cmat.R_indv_pdf[i])
    ELSE [k \in 1..call.deg |->
            IF dim = 1 THEN cmat.M_indv_pdf[k][i] ELSE cmat.R_indv_pdf[k][i]]

\* the dimensions from the fastest-running index of a column to the slowest
FlattenOrder ==
    IF call.module = "mle_utils_nd" THEN [q \in 1..Len(call.deg_per_dim) |-> q]
    ELSE <<2, 1>>

\* the product of the lengths of the basis vectors of the first q dimensions
\* of FlattenOrder
RECURSIVE Stride(_)
Stride(q) == IF q = 0 THEN 1 ELSE Len(BasisVector(FlattenOrder[q], 1)) * Stride(q - 1)

\* the entry of the tensor product of observation i's basis vectors that
\* falls on row k when the product is flattened
RECURSIVE TensorEntry(_, _, _)
TensorEntry(k, i, q) ==
    IF q = 0 THEN One
    ELSE LET dim == FlattenOrder[q]
             v == BasisVector(dim, i)
         IN  Mul(v[(((k - 1) \div Stride(q - 1)) % Len(v)) + 1], TensorEntry(k, i, q - 1))

ShapeIsKByN ==
    /\ Len(ret.C_pdf) = Product([d \in 1..Len(call.deg_per_dim) |-> call.deg_per_dim[d] - 2])
    /\ \A k \in 1..Len(ret.C_pdf) : Len(ret.C_pdf[k]) = call.n

ColumnsAreTensorProducts ==
    \A k \in 1..Len(cmat.C_T) : \A i \in 1..call.n :
        cmat.C_T[k][i] = TensorEntry(k, i, Len(call.deg_per_dim))

\* C4: for N observations and per-dimension degrees degree_d, the design
\* matrix calc_C_matrix returns has K = product of (degree_d - 2) rows and N
\* columns, with and without uncertainties, and column i is the flattened
\* tensor product of observation i's per-dimension basis vectors (before
\* the flooring of C1).
C4_DesignMatrixShape ==
    (DesignDone /\ \A d \in 1..Len(call.deg_per_dim) : call.deg_per_dim[d] >= 3) =>
        ShapeIsKByN /\ ColumnsAreTensorProducts

\* C4, supporting: the N-D calc_C_matrix does return that matrix
C4_HoldsInND ==
    (DesignDone /\ call.module = "mle_utils_nd") =>
        ShapeIsKByN /\ ColumnsAreTensorProducts

\* C4, supporting: what the 2-D calc_C_matrix returns instead: degree^2 rows
\* and N columns with uncertainties, N^2 rows and degree^2 columns without
C4_ShapeIn2D ==
    (DesignDone /\ call.module = "mle_utils") =>
        IF call.noisy
        THEN /\ Len(ret.C_pdf) = call.deg * call.deg
             /\ \A k \in 1..Len(ret.C_pdf) : Len(ret.C_pdf[k]) = call.n
             /\ ColumnsAreTensorProducts
        ELSE /\ Len(ret.C_pdf) = call.n * call.n
             /\ \A k \in 1..Len(ret.C_pdf) : Len(ret.C_pdf[k]) = call.deg * call.deg

(***************************************************************************)
(* MLE_fit of mle_utils_nd.py.  An array of several dimensions is a        *)
(* function from its index tuples (0-based, as in numpy) to its entries.   *)
(***************************************************************************)
Indices(shape) ==
    {idx \in [1..Len(shape) -> 0..(MaxDeg - 1)] : \A d \in 1..Len(shape) : idx[d] < shape[d]}

\* the position of index idx in the C-order flattening of an array of this
\* shape, counted over the first q axes
RECURSIVE COffset(_, _, _)
COffset(idx, shape, q) ==
    IF q = 0 THEN 0 ELSE COffset(idx, shape, q - 1) * shape[q] + idx[q]

\* the position of idx when the first axis runs fastest instead
RECURSIVE FOffset(_, _, _)
FOffset(idx, shape, q) ==
    IF q > Len(shape) THEN 0 ELSE idx[q] + shape[q] * FOffset(idx, shape, q + 1)

\* a reshape that fills the first axis fastest (order='F')
Reshape_first_axis_fastest(vec, shape) ==
    [idx \in Indices(shape) |-> vec[FOffset(idx, shape, 1) + 1]]

\* an array with every entry computed
Computed(arr) == arr @@ <<>>

\* np.reshape(vec, shape)
Reshape(vec, shape) ==
    Computed([idx \in Indices(shape) |-> vec[COffset(idx, shape, Len(shape)) + 1]])

\* array.flatten()
Flatten(arr, shape) ==
    Array([q \in 1..Product(shape) |->
        arr[CHOOSE idx \in Indices(shape) : COffset(idx, shape, Len(shape)) = q - 1]])

\* an array of ones in place of the zeros: np.ones(shape)
ZerosArray_ones(shape) == [idx \in Indices(shape) |-> One]

\* np.zeros(shape)
ZerosArray(shape) == [idx \in Indices(shape) |-> Zero]

\* the padding with the slice shifted to the lower corner: slice(0, -2)
PadInterior_from_zero(w_sq_padded, w_sq) ==
    [idx \in DOMAIN w_sq_padded |->
        IF idx \in DOMAIN w_sq THEN w_sq[idx] ELSE w_sq_padded[idx]]

\* w_sq_padded[[slice(1,-1) for i in range(ndim)]] = w_sq (line 141): the
\* entry idx of w_sq lands on idx + 1 along every axis
PadInterior(w_sq_padded, w_sq) ==
    [idx \in DOMAIN w_sq_padded |->
        IF \E j \in DOMAIN w_sq : \A d \in DOMAIN idx : idx[d] = j[d] + 1
        THEN w_sq[CHOOSE j \in DOMAIN w_sq : \A d \in DOMAIN idx : idx[d] = j[d] + 1]
        ELSE w_sq_padded[idx]]

\* np.linspace(lo, hi, num)
linspace(lo, hi, num) ==
    IF num = 1 THEN <<lo>>
    ELSE [k \in 1..num |-> Add(lo, Div(Mul(Sub(hi, lo), Q(k - 1, 1)), Q(num - 1, 1)))]

\* What the optimizer collaborator can return for K basis combinations:
\* K weights, each in [0, 1], that sum to 1.  All equal; all the mass on the
\* first or on the last combination; or weights 1 : 2 : ... : K.
OptimizerWeights(K) ==
    { [j \in 1..K |-> Q(1, K)],
      [j \in 1..K |-> IF j = 1 THEN One ELSE Zero],
      [j \in 1..K |-> IF j = K THEN One ELSE Zero],
      [j \in 1..K |-> Q(2 * j, K * (K + 1))] }

\* the kinds of the observations of a fit's data set: observation i is of
\* kind i
FitKinds(n) == [i \in 1..n |-> ((i - 1) % Len(ObsKinds)) + 1]

(***************************************************************************)
(* TensorMultiplication of mle_utils_nd.py.  Arrays are functions from     *)
(* their index tuples, as above; a 0-d array has the one index <<>>.       *)
(***************************************************************************)
\* largest rank of an operand
MaxRank == 2

\* largest size of an axis of an operand
MaxAxis == 2

\* A.shape
ShapeOf(arr) ==
    LET any == CHOOSE idx \in DOMAIN arr : TRUE
    IN  [d \in 1..Len(any) |->
            1 + (CHOOSE m \in {idx[d] : idx \in DOMAIN arr} :
                    \A idx \in DOMAIN arr : idx[d] <= m)]

RECURSIVE SetToSeq(_)
SetToSeq(S) ==
    IF S = {} THEN <<>>
    ELSE LET x == CHOOSE x \in S : TRUE IN <<x>> \o SetToSeq(S \ {x})

\* the letters of a sequence of labels
LettersOf(labels) == {labels[q] : q \in 1..Len(labels)}

\* np.einsum('A,B->out', A, B): Subscripts holds the three label sequences.
\* Every label names one axis size; the labels missing from out are summed.
einsum(Subscripts, A, B) ==
    LET sa == ShapeOf(A)
        sb == ShapeOf(B)
        la == Subscripts.A
        lb == Subscripts.B
        lo == Subscripts.out
        sizes(l) == {sa[q] : q \in {q \in 1..Len(la) : la[q] = l}}
                        \cup {sb[q] : q \in {q \in 1..Len(lb) : lb[q] = l}}
        letters == LettersOf(la) \cup LettersOf(lb)
    IN  IF \/ Len(la) # Len(sa)
           \/ Len(lb) # Len(sb)
           \/ \E l \in letters : Cardinality(sizes(l)) # 1
           \/ ~(LettersOf(lo) \subseteq letters)
        THEN [exc |-> "ValueError"]
        ELSE LET size(l) == CHOOSE n \in sizes(l) : TRUE
                 summed == letters \ LettersOf(lo)
                 assignments == SetToSeq({m \in [summed -> 0..(MaxDeg - 1)] :
                                            \A l \in summed : m[l] < size(l)})
                 shape == [q \in 1..Len(lo) |-> size(lo[q])]
                 value(l, idx, m) ==
                     IF l \in summed THEN m[l]
                     ELSE idx[CHOOSE q \in 1..Len(lo) : lo[q] = l]
                 term(idx, m) ==
                     Mul(A[[q \in 1..Len(la) |-> value(la[q], idx, m)]],
                         B[[q \in 1..Len(lb) |-> value(lb[q], idx, m)]])
             IN  [exc |-> "",
                  C |-> Computed([idx \in Indices(shape) |->
                            SumSeq([k \in 1..Len(assignments) |->
                                       term(idx, assignments[k])])])]

\* [chr(i) for i in range(105, 123)]
Alphabets ==
    <<"i", "j", "k", "l", "m", "n", "o", "p", "q", "r", "s", "t", "u", "v", "w", "x", "y", "z">>

\* a product with no shared label between the operands
TensorMultiplication_no_shared_label(A, B, Subscripts) ==
    LET NdimA == Len(ShapeOf(A))
        NdimB == Len(ShapeOf(B))
    IN  einsum([A |-> SubSeq(Alphabets, 1, NdimA),
                B |-> SubSeq(Alphabets, NdimA + 1, NdimA + NdimB),
                out |-> SubSeq(Alphabets, 1, NdimA + NdimB)], A, B)

\* mle_utils_nd.py 596-616; Subscripts is None or the three label sequences
\* of a subscripts string
TensorMultiplication(A, B, Subscripts) ==
    LET NdimA == Len(ShapeOf(A))
        NdimB == Len(ShapeOf(B))
    IN  IF Subscripts = None
        THEN einsum([A |-> SubSeq(Alphabets, 1, NdimA),
                     B |-> SubSeq(Alphabets, NdimA, NdimA + NdimB - 1),
                     out |-> SubSeq(Alphabets, 1, NdimA - 1)
                                \o SubSeq(Alphabets, NdimA + 1, NdimA + NdimB - 1)],
                    A, B)
        ELSE einsum(Subscripts, A, B)

\* shapes of the operands
TensorShapes == UNION {[1..r -> 1..MaxAxis] : r \in 1..MaxRank}

\* entries of the operands: 1, 2, 3, ... or -1, 3, -5, ... in C order
TensorFills == {"ramp", "alternating"}

TensorFill(shape, fill) ==
    [idx \in Indices(shape) |->
        LET p == COffset(idx, shape, Len(shape))
        IN  IF fill = "ramp" THEN Q(p + 1, 1)
            ELSE Q((IF p % 2 = 0 THEN -1 ELSE 1) * (2 * p + 1), 1)]

\* the Subscripts arguments: omitted, or 'i,j->ij'
SubscriptsArguments == {None, [A |-> <<"i">>, B |-> <<"j">>, out |-> <<"i", "j">>]}

Eval_TensorMultiplication ==
    /\ pc = "idle"
    /\ \E sa \in TensorShapes, sb \in TensorShapes, fa \in TensorFills, fb \in TensorFills,
          sub \in SubscriptsArguments :
         /\ call' = [fn |-> "TensorMultiplication", A |-> TensorFill(sa, fa),
                     B |-> TensorFill(sb, fb), Subscripts |-> sub,
                     shapeA |-> sa, shapeB |-> sb]
         /\ ret' = TensorMultiplication(call'.A, call'.B, sub)
    /\ pc' = "done"
    /\ UNCHANGED <<loc, numeric_work, cmat, fit>>

NextTensor == Eval_TensorMultiplication

SpecTensor == Init /\ [][NextTensor]_vars

\* a returned product with Subscripts omitted
DefaultProduct ==
    /\ pc = "done"
    /\ call # NoCall
    /\ call.fn = "TensorMultiplication"
    /\ call.Subscripts = None

\* C[i..., l...] = sum over k of A[i..., k] * B[k, l...], of shape
\* A.shape[:-1] + B.shape[1:]
IsContraction ==
    LET sa == call.shapeA
        sb == call.shapeB
        ra == Len(sa)
        shape == SubSeq(sa, 1, ra - 1) \o SubSeq(sb, 2, Len(sb))
    IN  /\ ret.exc = ""
        /\ DOMAIN ret.C = Indices(shape)
        /\ \A idx \in Indices(shape) :
             ret.C[idx] = SumSeq([k \in 1..sa[ra] |->
                             Mul(call.A[SubSeq(idx, 1, ra - 1) \o <<k - 1>>],
                                 call.B[<<k - 1>> \o SubSeq(idx, ra, Len(idx))])])

\* C[i..., l...] = A[i...] * B[l...], of shape A.shape + B.shape
IsOuterProduct ==
    LET sa == call.shapeA
        sb == call.shapeB
        shape == sa \o sb
    IN  /\ ret.exc = ""
        /\ DOMAIN ret.C = Indices(shape)
        /\ \A idx \in Indices(shape) :
             ret.C[idx] = Mul(call.A[SubSeq(idx, 1, Len(sa))],
                              call.B[SubSeq(idx, Len(sa) + 1, Len(idx))])

Contractible == call.shapeA[Len(call.shapeA)] = call.shapeB[1]

C16_NoUnitAxisReturned ==
    (DefaultProduct /\ ret.exc = "") =>
        \A d \in 1..Len(ShapeOf(ret.C)) : ShapeOf(ret.C)[d] # 1

\* the returned array keeps every axis of A.shape[:-1] + B.shape[1:], those
\* of size 1 too
C16_UnitAxesKept ==
    (DefaultProduct /\ ret.exc = "") =>
        ShapeOf(ret.C) = SubSeq(call.shapeA, 1, Len(call.shapeA) - 1)
                            \o SubSeq(call.shapeB, 2, Len(call.shapeB))

\* a product of a (2, 2) and a (2, 1) operand
C16_UnitAxisProduced ==
    /\ DefaultProduct
    /\ call.shapeA = <<2, 2>>
    /\ call.shapeB = <<2, 1>>
    /\ ret.exc = ""
    /\ ShapeOf(ret.C) = <<2, 1>>


(***************************************************************************)
(* MLE_fit of mle_utils_nd.py, continued                                   *)
(***************************************************************************)
\* abs_tol, Log and the behaviour of quad for a fit
FitSettings ==
    LET f == CHOOSE f \in QuadOracles : TRUE
        g == CHOOSE g \in QuadOracles : g # f
    IN  {<<QE(1, 1, -8), TRUE, f>>, <<QE(1, 1, -10), FALSE, g>>}

\* the observations of a fit: with Log, one exact observation (kind 1);
\* without, MaxN observations, those with uncertainties first (kinds 4, 5,
\* 1, ...)
FitData(n, Log) ==
    IF Log THEN FitKinds(n) ELSE [i \in 1..n |-> ((i + 2) % Len(ObsKinds)) + 1]

\* degrees per dimension: the same in every dimension, or rising or falling by
\* one from dimension to dimension
FitDegrees(ndim) ==
    {degs \in [1..ndim -> 3..MaxDeg] :
        \/ \A d \in 1..ndim : degs[d] = degs[1]
        \/ \A d \in 2..ndim : degs[d] = degs[d - 1] + 1
        \/ \A d \in 2..ndim : degs[d] = degs[d - 1] - 1}

MLE_fit_Enter ==
    /\ pc = "idle"
    /\ \E ndim \in 1..MaxDim, n \in {1, MaxN}, st \in FitSettings, owo \in BOOLEAN :
         \E degs \in FitDegrees(ndim) :
            /\ n = (IF st[2] THEN 1 ELSE MaxN)
            /\ call' = [fn |-> "MLE_fit",
                        DataDict |-> DesignDataDict(FitData(n, st[2]), ndim, st[2]),
                        deg_per_dim |-> degs, Log |-> st[2], abs_tol |-> st[1],
                        output_weights_only |-> owo, oracle |-> st[3]]
            /\ fit' = [ndim |-> ndim, DataLength |-> n]
    /\ pc' = "MLE_fit_calc_C_matrix"
    /\ UNCHANGED <<ret, loc, numeric_work, cmat>>

\* lines 112-118
MLE_fit_calc_C_matrix ==
    /\ pc = "MLE_fit_calc_C_matrix"
    /\ cmat' = calc_C_matrix(call.DataDict, call.deg_per_dim, call.abs_tol, call.Log,
                             call.oracle)
    /\ fit' = [ndim |-> fit.ndim, DataLength |-> fit.DataLength, C_pdf |-> cmat'.C_pdf]
    /\ pc' = "MLE_fit_optimizer"
    /\ UNCHANGED <<call, ret, loc, numeric_work>>

\* The runs of the optimizer for K basis combinations: the weights it
\* returns and the exit mode of its minimiser, 0 (converged) or 9 (iteration
\* limit reached).  A run that stops at the limit returns the weights it
\* started from, all equal; MLE_fit is handed the weights, not the mode.
OptimizerRuns(K) ==
    {[unpadded_weight |-> w, imode |-> IF w = [j \in 1..K |-> Q(1, K)] THEN 9 ELSE 0] :
        w \in OptimizerWeights(K)}
      \cup {[unpadded_weight |-> [j \in 1..K |-> Q(1, K)], imode |-> 0]}

\* an MLE_fit that calls the optimizer again when it did not converge
AfterOptimizer_retry(imode) == IF imode # 0 THEN "MLE_fit_optimizer" ELSE "MLE_fit_pad"

\* the statement that follows the call of the optimizer (line 139)
AfterOptimizer(imode) == "MLE_fit_pad"

\* lines 129-130
MLE_fit_optimizer ==
    /\ pc = "MLE_fit_optimizer"
    /\ \E run \in OptimizerRuns(Len(fit.C_pdf)) :
         /\ fit' = [ndim |-> fit.ndim, DataLength |-> fit.DataLength, C_pdf |-> fit.C_pdf,
                    unpadded_weight |-> run.unpadded_weight, imode |-> run.imode]
         /\ pc' = AfterOptimizer(run.imode)
    /\ UNCHANGED <<call, ret, loc, numeric_work, cmat>>

\* MLE_fit's locals after lines 139-142
PadWeights(f, deg_per_dim) ==
    LET w_sq == Reshape(f.unpadded_weight, [d \in 1..f.ndim |-> deg_per_dim[d] - 2])
        w_sq_padded == PadInterior(ZerosArray(deg_per_dim), w_sq)
    IN  [w_sq |-> w_sq, w_sq_padded |-> w_sq_padded,
         w_hat |-> Flatten(w_sq_padded, deg_per_dim)] @@ f

\* lines 139-142
MLE_fit_pad ==
    /\ pc = "MLE_fit_pad"
    /\ fit' = PadWeights(fit, call.deg_per_dim)
    /\ pc' = "MLE_fit_padded"
    /\ UNCHANGED <<call, ret, loc, numeric_work, cmat>>

\* lines 145-146
MLE_fit_return_weights ==
    /\ pc = "MLE_fit_padded"
    /\ call.output_weights_only
    /\ ret' = [exc |-> "", unpadded_weight |-> fit.unpadded_weight]
    /\ pc' = "done"
    /\ UNCHANGED <<call, loc, numeric_work, cmat, fit>>

\* DataDict with DataDict['DataSequence'] = DataSeq
WithDataSequence(DataDict, DataSeq) ==
    [k \in DOMAIN DataDict \cup {"DataSequence"} |->
        IF k = "DataSequence" THEN DataSeq ELSE DataDict[k]]

\* calculate_joint_distribution, lines 554-560: the locals before the sweep.
\* With them: how often each cell of joint was assigned, the passes made
\* through the loop body, and the deepest nesting of JointRecursiveMess.
JointLocals(DataDict, weights, deg_per_dim) ==
    LET NPoints == Len(DataDict.DataSequence[1])
        ndim == DataDict.ndim
    IN  [DataDict |-> DataDict,
         weights |-> weights,
         deg_per_dim |-> deg_per_dim,
         NPoints |-> NPoints,
         deg_vec_per_dim |-> [d \in 1..ndim |-> arange(1, deg_per_dim[d] + 1)],
         joint |-> ZerosArray([d \in 1..ndim |-> NPoints]),
         indv_pdf_per_dim |-> [d \in 1..ndim |->
             [i \in 1..NPoints |-> [k \in 1..deg_per_dim[d] |-> Zero]]],
         Indices |-> [d \in 1..ndim |-> 0],
         dim |-> 0, i |-> 0,
         assigned |-> [idx \in Indices([d \in 1..ndim |-> NPoints]) |-> 0],
         passes |-> 0, depth |-> 1]

\* lines 154-167: the grid, stored in the caller's DataDict, the output
\* dictionary, and the call of calculate_joint_distribution (its lines 554-560)
MLE_fit_output ==
    /\ pc = "MLE_fit_padded"
    /\ ~call.output_weights_only
    /\ LET DataSeq == [dim \in 1..fit.ndim |->
                         linspace(call.DataDict.ndim_bounds[dim][1],
                                  call.DataDict.ndim_bounds[dim][2], GridN)]
       IN  /\ call' = [call EXCEPT !.DataDict = WithDataSequence(@, DataSeq)]
           /\ ret' = [exc |-> "",
                      output |-> [UnpaddedWeights |-> fit.unpadded_weight,
                                  Weights |-> fit.w_hat,
                                  deg_per_dim |-> call.deg_per_dim,
                                  DataSequence |-> DataSeq]]
           /\ loc' = JointLocals(call'.DataDict, fit.w_hat, call.deg_per_dim)
    /\ pc' = "JointRecursiveMess"
    /\ UNCHANGED <<numeric_work, cmat, fit>>

\* contractions that read row 0 of the buffer of every dimension but the last
RECURSIVE Contract_row_zero(_, _, _, _, _)
Contract_row_zero(indv_pdf_per_dim, Idx, deg_per_dim, temporary, dd) ==
    IF dd > Len(deg_per_dim) THEN temporary
    ELSE Contract_row_zero(indv_pdf_per_dim, Idx, deg_per_dim,
            TensorMultiplication(
                Reshape(indv_pdf_per_dim[dd][IF dd < Len(deg_per_dim) THEN 1
                                             ELSE Idx[dd] + 1],
                        <<deg_per_dim[dd]>>),
                temporary, None).C,
            dd + 1)

\* lines 580-586: temporary after the contractions dd, ..., ndim - 1
RECURSIVE Contract(_, _, _, _, _)
Contract(indv_pdf_per_dim, Idx, deg_per_dim, temporary, dd) ==
    IF dd > Len(deg_per_dim) THEN temporary
    ELSE Contract(indv_pdf_per_dim, Idx, deg_per_dim,
                  TensorMultiplication(Reshape(indv_pdf_per_dim[dd][Idx[dd] + 1],
                                               <<deg_per_dim[dd]>>),
                                       temporary, None).C,
                  dd + 1)

\* the test of line 577 always true: every level is taken for the innermost
IsInnermost_every_level(dim, ndim) == TRUE

\* line 577: dim == ndim-1
IsInnermost(dim, ndim) == dim = ndim - 1

\* one pass through the body of the loop of JointRecursiveMess(dim), lines
\* 563-589, for i = L.i, L being the locals of calculate_joint_distribution:
\* the row of the buffer is filled, and the entry of joint is written at the
\* innermost dimension.  dim and i then name the pass that runs next: the
\* first of JointRecursiveMess(dim + 1), or the next of the innermost loop
\* that has not run out.
JointRecursiveMess_pass(L) ==
    LET dim == L.dim
        ndim == L.DataDict.ndim
        Idx == [L.Indices EXCEPT ![dim + 1] = L.i]
        e == _find_indv_pdf(L.DataDict.DataSequence[dim + 1][L.i + 1],
                            L.deg_per_dim[dim + 1], L.deg_vec_per_dim[dim + 1],
                            L.DataDict.ndim_bounds[dim + 1][2],
                            L.DataDict.ndim_bounds[dim + 1][1],
                            NaN, DefaultAbsTol, FALSE, <<>>)
        buf == [L.indv_pdf_per_dim EXCEPT ![dim + 1][L.i + 1] = e.val]
        leaf == IsInnermost(dim, ndim)
        open == {l \in 0..dim : Idx[l + 1] + 1 < L.NPoints}
        up == CHOOSE l \in open : \A m \in open : m <= l
    IN  [L EXCEPT
            !.Indices = Idx,
            !.indv_pdf_per_dim = buf,
            !.joint = IF leaf
                      THEN [@ EXCEPT ![Idx] =
                               Contract(buf, Idx, L.deg_per_dim,
                                        Reshape(L.weights, L.deg_per_dim), 1)[<<>>]]
                      ELSE @,
            !.assigned = IF leaf THEN [@ EXCEPT ![Idx] = @ + 1] ELSE @,
            !.passes = @ + 1,
            !.depth = IF ~leaf /\ dim + 2 > @ THEN dim + 2 ELSE @,
            !.dim = IF ~leaf THEN dim + 1 ELSE IF open = {} THEN -1 ELSE up,
            !.i = IF ~leaf THEN 0 ELSE IF open = {} THEN 0 ELSE Idx[up + 1] + 1]

\* lines 562-589
JointRecursiveMess ==
    /\ pc = "JointRecursiveMess"
    /\ loc' = JointRecursiveMess_pass(loc)
    /\ pc' = IF loc'.dim = -1 THEN "MLE_fit_JointDist" ELSE pc
    /\ UNCHANGED <<call, ret, numeric_work, cmat, fit>>

\* line 593 of calculate_joint_distribution and lines 169-216 of MLE_fit
MLE_fit_return ==
    /\ pc = "MLE_fit_JointDist"
    /\ ret' = [exc |-> "",
               output |-> [UnpaddedWeights |-> fit.unpadded_weight,
                           Weights |-> fit.w_hat,
                           deg_per_dim |-> call.deg_per_dim,
                           DataSequence |-> call.DataDict.DataSequence,
                           JointDist |-> loc.joint]]
    /\ pc' = "done"
    /\ UNCHANGED <<call, loc, numeric_work, cmat, fit>>

NextFit ==
    \/ MLE_fit_Enter
    \/ MLE_fit_calc_C_matrix
    \/ MLE_fit_optimizer
    \/ MLE_fit_pad
    \/ MLE_fit_return_weights
    \/ MLE_fit_output
    \/ JointRecursiveMess
    \/ MLE_fit_return

SpecFit == Init /\ [][NextFit]_vars

Padded ==
    /\ call.fn = "MLE_fit"
    /\ pc \in {"MLE_fit_padded", "JointRecursiveMess", "MLE_fit_JointDist", "done"}

\* C2: in MLE_fit, for any number of dimensions and any degrees >= 3, every
\* entry of the padded weight hypercube of shape (degree_1, ..., degree_D)
\* whose index along at least one axis is 0 or degree_d - 1 is exactly zero.
C2_BoundarySlabsZero ==
    Padded =>
        /\ DOMAIN fit.w_sq_padded = Indices(call.deg_per_dim)
        /\ \A idx \in DOMAIN fit.w_sq_padded :
             (\E d \in 1..fit.ndim : idx[d] = 0 \/ idx[d] = call.deg_per_dim[d] - 1)
                 => fit.w_sq_padded[idx] = Zero

\* a padded hypercube of two dimensions whose boundary slabs are zero around
\* an interior that is not
C2_Witness ==
    /\ Padded
    /\ fit.ndim = 2
    /\ \E idx \in DOMAIN fit.w_sq_padded : idx[1] = 0 /\ fit.w_sq_padded[idx] = Zero
    /\ \E idx \in DOMAIN fit.w_sq_padded :
         idx[2] = call.deg_per_dim[2] - 1 /\ fit.w_sq_padded[idx] = Zero
    /\ \A idx \in DOMAIN fit.w_sq_padded :
         (\A d \in 1..2 : idx[d] >= 1 /\ idx[d] <= call.deg_per_dim[d] - 2)
             => Lt(Zero, fit.w_sq_padded[idx])

\* the entry of the unpadded vector that index j of its reshaping to
\* (degree_1 - 2, ..., degree_D - 2) names: the last axis runs fastest
RECURSIVE UnpaddedAt(_, _)
UnpaddedAt(j, q) ==
    IF q = 0 THEN 0 ELSE UnpaddedAt(j, q - 1) * (call.deg_per_dim[q] - 2) + j[q]

\* C3: padding only embeds the optimizer's weights: the padded entry at an
\* interior index (j_1, ..., j_D), 1 <= j_d <= degree_d - 2, is the unpadded
\* weight vector reshaped to (degree_1 - 2, ..., degree_D - 2) at
\* (j_1 - 1, ..., j_D - 1), so the padded weights sum to 1 and lie in [0, 1]
\* like the vector the optimizer returned.
C3_PaddingEmbedsWeights ==
    Padded =>
        /\ \A idx \in DOMAIN fit.w_sq_padded :
             (\A d \in 1..fit.ndim : idx[d] >= 1 /\ idx[d] <= call.deg_per_dim[d] - 2)
                 => fit.w_sq_padded[idx] =
                       fit.unpadded_weight[UnpaddedAt([d \in 1..fit.ndim |-> idx[d] - 1],
                                                      fit.ndim) + 1]
        /\ SumSeq(fit.unpadded_weight) = One
        /\ SumSeq(fit.w_hat) = SumSeq(fit.unpadded_weight)
        /\ \A q \in 1..Len(fit.w_hat) : Le(Zero, fit.w_hat[q]) /\ Le(fit.w_hat[q], One)
        /\ \A q \in 1..Len(fit.unpadded_weight) :
             Le(Zero, fit.unpadded_weight[q]) /\ Le(fit.unpadded_weight[q], One)

\* four distinct weights embedded in a 4 x 4 hypercube
C3_Witness ==
    /\ Padded
    /\ call.deg_per_dim = <<4, 4>>
    /\ fit.unpadded_weight = <<Q(1, 10), Q(2, 10), Q(3, 10), Q(4, 10)>>
    /\ fit.w_sq_padded[<<1, 2>>] = Q(2, 10)
    /\ fit.w_sq_padded[<<2, 1>>] = Q(3, 10)

(***************************************************************************)
(* Conditional statistics: cond_density_quantile of both modules           *)
(***************************************************************************)
Choose(n, k) == factorial(n) \div (factorial(k) * factorial(n - k))

RECURSIVE BinomialTail(_, _, _)
BinomialTail(x, n, j) ==
    IF j > n THEN Zero
    ELSE Add(Mul(Q(Choose(n, j), 1), Mul(Pow(x, j), Pow(Sub(One, x), n - j))),
             BinomialTail(x, n, j + 1))

\* the upper tail 1 - cdf in place of the cdf
beta_cdf_upper_tail(x, a, b) ==
    IF IsNaN(x) THEN NaN
    ELSE IF Le(x, Zero) THEN One
    ELSE IF Le(One, x) THEN Zero
    ELSE Sub(One, BinomialTail(x, a + b - 1, a))

\* scipy.stats.beta.cdf(x, a, b) for integer a, b >= 1: the regularised
\* incomplete beta function is a binomial tail
beta_cdf(x, a, b) ==
    IF IsNaN(x) THEN NaN
    ELSE IF Le(x, Zero) THEN Zero
    ELSE IF Le(One, x) THEN One
    ELSE BinomialTail(x, a + b - 1, a)

\* np.sum(w_hat * v)
WeightedSum(w_hat, v) == SumSeq(Array([q \in 1..Len(w_hat) |-> Mul(w_hat[q], v[q])]))

\* np.repeat(1, k)
Ones(k) == [q \in 1..k |-> One]

MaxOf(v) == CHOOSE m \in {v[q] : q \in 1..Len(v)} : \A q \in 1..Len(v) : v[q] <= m

\* What brentq does when the function is NaN at the ends of the bracket:
\* releases that compare signs or test for NaN raise ValueError; releases
\* that test f(a)*f(b) > 0 go on, halve towards 0 and return the finite
\* number they stop at.
RootOnNaN == {"ValueError", "finite"}

\* the number the halving stops at, within the tolerance of 0
NearZero == QE(1, 1, -8)

\* x * y > 0
ProductPositive(x, y) ==
    \/ Lt(Zero, x) /\ Lt(Zero, y)
    \/ Lt(x, Zero) /\ Lt(y, Zero)

\* a root finder that does not test the signs at the ends of the bracket and
\* hands back the upper end when it found no sign change
root_unchecked_bracket(gv, a, b, onNaN) ==
    LET fa == gv[1]
        fb == gv[RootGrid + 1]
    IN  IF IsNaN(fa) \/ IsNaN(fb)
        THEN (IF onNaN = "ValueError" THEN [exc |-> "ValueError", x |-> None]
              ELSE [exc |-> "", x |-> NearZero])
        ELSE [exc |-> "", x |-> b]

\* scipy.optimize.brentq(g, a, b), g given by its values on the grid
\* a + k (b - a) / RootGrid, k = 0..RootGrid: the root is taken in the first
\* cell where the sign changes, at the point where the chord through the
\* cell's ends crosses zero
root(gv, a, b, onNaN) ==
    LET fa == gv[1]
        fb == gv[RootGrid + 1]
    IN  IF IsNaN(fa) \/ IsNaN(fb)
        THEN (IF onNaN = "ValueError" THEN [exc |-> "ValueError", x |-> None]
              ELSE [exc |-> "", x |-> NearZero])
        ELSE IF ProductPositive(fa, fb) THEN [exc |-> "ValueError", x |-> None]
        ELSE IF IsZero(fa) THEN [exc |-> "", x |-> a]
        ELSE IF IsZero(fb) THEN [exc |-> "", x |-> b]
        ELSE LET k == CHOOSE k \in 1..RootGrid :
                        /\ ~ProductPositive(gv[k], gv[k + 1])
                        /\ \A h \in 1..(k - 1) : ProductPositive(gv[h], gv[h + 1])
                 h == Div(Sub(b, a), Q(RootGrid, 1))
                 lo == Add(a, Mul(h, Q(k - 1, 1)))
             IN  [exc |-> "",
                  x |-> IF IsZero(gv[k + 1]) THEN Add(lo, h)
                        ELSE Add(lo, Div(Mul(h, Neg(gv[k])), Sub(gv[k + 1], gv[k])))]

\* the statements both cond_density_quantile functions share after the
\* basis vector of the conditioning value, up to the quantiles:
\* mle_utils_nd.py 488-517, mle_utils.py 107-137.  p_beta is
\* pbeta_conditional_density on the grid b_min + k (b_max - b_min) / RootGrid.
CondMoments(a_beta_indv, b_max, b_min, deg, deg_vec, w_hat) ==
    LET a_beta_pdf == Kron(Ones(MaxOf(deg_vec)), a_beta_indv)
        summed == WeightedSum(w_hat, a_beta_pdf)
        denominator == IF IsZero(summed) THEN NaN ELSE summed
        mean_beta_indv == Array([k \in 1..Len(deg_vec) |->
            Add(Div(Mul(Q(deg_vec[k], 1), Sub(b_max, b_min)), Q(deg + 1, 1)), b_min)])
        mean == Div(WeightedSum(w_hat, Kron(mean_beta_indv, a_beta_indv)), denominator)
        var_beta_indv == Array([k \in 1..Len(deg_vec) |->
            Div(Mul(Q(deg_vec[k] * (deg - deg_vec[k] + 1), 1), Pow(Sub(b_max, b_min), 2)),
                Q((deg + 2) * (deg + 1) * (deg + 1), 1))])
        var == Div(WeightedSum(w_hat, Kron(var_beta_indv, a_beta_indv)), denominator)
        pbeta_conditional_density(j) ==
            LET b_indv_cdf == Array([k \in 1..Len(deg_vec) |->
                    beta_cdf(Div(Sub(j, b_min), Sub(b_max, b_min)),
                             deg_vec[k], deg - deg_vec[k] + 1)])
            IN  Div(WeightedSum(w_hat, Kron(b_indv_cdf, a_beta_indv)), denominator)
        p_beta == Array([k \in 1..(RootGrid + 1) |->
                    pbeta_conditional_density(
                        Add(b_min, Div(Mul(Sub(b_max, b_min), Q(k - 1, 1)),
                                       Q(RootGrid, 1))))])
    IN  [exc |-> "", summed |-> summed, mean |-> mean, var |-> var,
         denominator |-> denominator, a_beta_indv |-> a_beta_indv, p_beta |-> p_beta]

\* the quantile step, lines 520-528 (N-D) and 138-143 (2-D), on the locals m
\* of the statements before it
CondQuantiles(m, b_max, b_min, qtl, onNaN) ==
    IF m.exc # "" THEN m
    ELSE LET g(q) == Array([k \in 1..(RootGrid + 1) |-> Sub(m.p_beta[k], q)])
             roots == Array([i \in 1..Len(qtl) |-> root(g(qtl[i]), b_min, b_max, onNaN)])
         IN  [summed |-> m.summed,
              exc |-> IF \E i \in 1..Len(qtl) : roots[i].exc # "" THEN "ValueError" ELSE "",
              mean |-> m.mean, var |-> m.var,
              quantile |-> [i \in 1..Len(qtl) |-> roots[i].x],
              denominator |-> m.denominator,
              a_beta_indv |-> m.a_beta_indv,
              p_beta |-> m.p_beta]

\* what the caller gets: the five values, or the exception alone
Returned(r) ==
    IF r.exc # "" THEN [exc |-> r.exc]
    ELSE [exc |-> "", mean |-> r.mean, var |-> r.var, quantile |-> r.quantile,
          denominator |-> r.denominator, a_beta_indv |-> r.a_beta_indv]

\* mle_utils_nd.py 476-517: the call up to the quantiles
cond_moments(a, a_max, a_min, b_max, b_min, deg, deg_vec, w_hat, a_std, abs_tol, oracle) ==
    LET e == _find_indv_pdf(a, deg, deg_vec, a_max, a_min, a_std, abs_tol, FALSE, oracle)
    IN  IF e.exc # "" THEN [exc |-> e.exc, summed |-> None]
        ELSE CondMoments(e.val, b_max, b_min, deg, deg_vec, w_hat)

\* mle_utils_nd.py 476-530
cond_density_quantile(a, a_max, a_min, b_max, b_min, deg, deg_vec, w_hat, a_std, qtl, abs_tol, oracle, onNaN) ==
    CondQuantiles(cond_moments(a, a_max, a_min, b_max, b_min, deg, deg_vec, w_hat, a_std,
                               abs_tol, oracle), b_max, b_min, qtl, onNaN)

\* mle_utils.py 95-137: the call up to the quantiles
cond_moments_2d(y, y_max, y_min, x_max, x_min, deg, w_hat, y_std, abs_tol, oracle) ==
    LET deg_vec == arange(1, deg + 1)
        e == find_indv_pdf(y, deg, deg_vec, y_max, y_min, y_std, abs_tol, FALSE, oracle)
    IN  CondMoments(e.val, x_max, x_min, deg, deg_vec, w_hat)

\* mle_utils.py 95-147
cond_density_quantile_2d(y, y_max, y_min, x_max, x_min, deg, w_hat, y_std, qtl, abs_tol, oracle, onNaN) ==
    CondQuantiles(cond_moments_2d(y, y_max, y_min, x_max, x_min, deg, w_hat, y_std,
                                  abs_tol, oracle), x_max, x_min, qtl, onNaN)

\* what the caller of the 2-D function gets: quantile[0] and quantile[1]
Returned_2d(r) ==
    IF r.exc # "" THEN [exc |-> r.exc]
    ELSE [exc |-> "", mean |-> r.mean, var |-> r.var,
          quantile |-> SubSeq(r.quantile, 1, 2),
          denominator |-> r.denominator, a_beta_indv |-> r.a_beta_indv]

\* conditioning values in and around the bounds [0, 2]: the lower bound, two
\* interior points, the upper bound, and a point beyond it
CondPoints == {Q(0, 1), Q(1, 2), Q(1, 1), Q(2, 1), Q(3, 1)}

\* bounds of the target dimension
TargetBounds == {<<Q(0, 1), Q(2, 1)>>, <<Q(1, 1), Q(3, 1)>>}

\* the levels asked for: the default qtl = [0.16, 0.84], and the same levels
\* given in percent, which no value of the cumulative distribution reaches
Quantiles == {<<Q(16, 100), Q(84, 100)>>, <<Q(16, 1), Q(84, 1)>>}

\* weights over deg x deg basis pairs: the optimizer's weights padded as in
\* MLE_fit (lines 139-142), or the same weight on every pair
CondWeights(deg) ==
    {[q \in 1..(deg * deg) |-> Q(1, deg * deg)]} \cup
    (IF deg < 3 THEN {}
     ELSE {Flatten(PadInterior(ZerosArray(<<deg, deg>>),
                               Reshape(w, <<deg - 2, deg - 2>>)), <<deg, deg>>) :
             w \in OptimizerWeights((deg - 2) * (deg - 2))})

\* the weight vectors of every degree
CondWeightsByDeg == [deg \in 2..MaxDeg |-> CondWeights(deg)]

\* the quantile step of one call, for every level list and every behaviour of
\* the root finder; m holds the locals of the statements before it
Finish_cond_density_quantile(c, m, nd) ==
    \E qtl \in Quantiles, onNaN \in RootOnNaN :
        /\ call' = [c EXCEPT !.qtl = qtl, !.onNaN = onNaN]
        /\ loc' = CondQuantiles(m, c.b_max, c.b_min, qtl, onNaN)
        /\ ret' = IF nd THEN Returned(loc') ELSE Returned_2d(loc')

Eval_cond_density_quantile_nd ==
    /\ pc = "idle"
    /\ \E a \in CondPoints, bb \in TargetBounds, deg \in 3..MaxDeg, io \in Integrations :
         \E w_hat \in CondWeightsByDeg[deg] :
            Finish_cond_density_quantile(
                [fn |-> "cond_density_quantile", module |-> "mle_utils_nd",
                 a |-> a, a_max |-> DesignBounds[2], a_min |-> DesignBounds[1],
                 b_max |-> bb[2], b_min |-> bb[1], deg |-> deg,
                 deg_vec |-> arange(1, deg + 1), w_hat |-> w_hat, a_std |-> io[1],
                 qtl |-> <<>>, abs_tol |-> DefaultAbsTol, oracle |-> io[2],
                 onNaN |-> ""],
                cond_moments(a, DesignBounds[2], DesignBounds[1], bb[2], bb[1], deg,
                             arange(1, deg + 1), w_hat, io[1], DefaultAbsTol, io[2]),
                TRUE)
    /\ pc' = "done"
    /\ UNCHANGED <<numeric_work, cmat, fit>>

Eval_cond_density_quantile_2d ==
    /\ pc = "idle"
    /\ \E y \in CondPoints, bb \in TargetBounds, deg \in 2..MaxDeg, io \in Integrations :
         \E w_hat \in CondWeightsByDeg[deg] :
            Finish_cond_density_quantile(
                [fn |-> "cond_density_quantile", module |-> "mle_utils",
                 a |-> y, a_max |-> DesignBounds[2], a_min |-> DesignBounds[1],
                 b_max |-> bb[2], b_min |-> bb[1], deg |-> deg,
                 deg_vec |-> arange(1, deg + 1), w_hat |-> w_hat, a_std |-> io[1],
                 qtl |-> <<>>, abs_tol |-> QE(1, 1, -10), oracle |-> io[2],
                 onNaN |-> ""],
                cond_moments_2d(y, DesignBounds[2], DesignBounds[1], bb[2], bb[1], deg,
                                w_hat, io[1], QE(1, 1, -10), io[2]),
                FALSE)
    /\ pc' = "done"
    /\ UNCHANGED <<numeric_work, cmat, fit>>

NextCond == Eval_cond_density_quantile_nd \/ Eval_cond_density_quantile_2d

SpecCond == Init /\ [][NextCond]_vars

\* a call of cond_density_quantile whose denominator summed to exactly zero
ZeroDenominator ==
    pc = "done" /\ call.fn = "cond_density_quantile" /\ loc.summed = Zero

\* C10: in cond_density_quantile, when the denominator is exactly zero it is
\* replaced by NaN and the call returns NaN mean, NaN variance and NaN
\* quantiles; the mean, variance and quantile steps raise no exception.
C10_ZeroDenominatorGivesNaN ==
    ZeroDenominator =>
        /\ ret.exc = ""
        /\ ret.denominator = NaN
        /\ ret.mean = NaN
        /\ ret.var = NaN
        /\ \A i \in 1..Len(ret.quantile) : ret.quantile[i] = NaN

\* C10, supporting: what a zero denominator does lead to: the quantile step
\* raises ValueError, or the call returns NaN denominator, mean and variance
\* with every quantile a finite number
C10_QuantilesRaiseOrFinite ==
    ZeroDenominator =>
        \/ ret.exc = "ValueError" /\ call.onNaN = "ValueError"
        \/ /\ ret.exc = ""
           /\ call.onNaN = "finite"
           /\ ret.denominator = NaN
           /\ ret.mean = NaN
           /\ ret.var = NaN
           /\ \A i \in 1..Len(ret.quantile) : IsFinite(ret.quantile[i])

\* C10, supporting: zero denominators occur, in both modules and with padded
\* weights at a bound of the conditioning dimension
C10_ZeroDenominatorReached ==
    /\ ZeroDenominator
    /\ call.a = call.a_min
    /\ call.a_std = NaN
    /\ call.module = "mle_utils_nd"
    /\ call.deg = 3
    /\ call.w_hat = <<Zero, Zero, Zero, Zero, One, Zero, Zero, Zero, Zero>>


\* ---------------------------------------------------------------------------
\* C11: a quantile level the conditional CDF does not reach between the bounds
\* of the target dimension

\* a completed call that got as far as the quantiles
CondCallDone ==
    /\ pc = "done"
    /\ call # NoCall
    /\ call.fn = "cond_density_quantile"
    /\ "p_beta" \in DOMAIN loc

\* the conditional CDF minus level i at the lower and the upper bound both
\* are numbers of the same sign
Unbracketed(i) ==
    LET ga == Sub(loc.p_beta[1], call.qtl[i])
        gb == Sub(loc.p_beta[RootGrid + 1], call.qtl[i])
    IN  /\ ~IsNaN(ga)
        /\ ~IsNaN(gb)
        /\ ProductPositive(ga, gb)

OnBoundary ==
    /\ pc = "done"
    /\ call # NoCall
    /\ call.fn = "cond_density_quantile"
    /\ call.a \in {call.a_min, call.a_max}
    /\ call.a_std = (IF call.module = "mle_utils_nd" THEN NaN ELSE None)
    /\ call.qtl = <<Q(16, 100), Q(84, 100)>>

\* every returned number is NaN
NaNResults ==
    /\ IsNaN(ret.mean)
    /\ IsNaN(ret.var)
    /\ \A i \in 1..Len(ret.quantile) : IsNaN(ret.quantile[i])

\* every level was bracketed by the bounds and its root lies between them
BracketedRoots ==
    \A i \in 1..Len(call.qtl) :
        /\ ~IsNaN(loc.p_beta[1]) /\ ~IsNaN(loc.p_beta[RootGrid + 1])
        /\ Le(loc.p_beta[1], call.qtl[i])
        /\ Le(call.qtl[i], loc.p_beta[RootGrid + 1])
        /\ Le(call.b_min, ret.quantile[i])
        /\ Le(ret.quantile[i], call.b_max)

\* C13: a call of cond_density_quantile whose conditioning value equals the
\* lower or the upper bound of the conditioning dimension returns, and what it
\* returns is either all NaN or quantiles that are bracketed roots; it never
\* ends in an exception.
C13_BoundaryNaNOrBracketed ==
    OnBoundary => /\ ret.exc = ""
                  /\ (NaNResults \/ BracketedRoots)

\* the same with an exception never raised, whatever is returned
C13_BoundaryNeverRaises ==
    OnBoundary => ret.exc = ""

\* a call on the boundary whose weights are padded, so that the only basis
\* function alive there has weight zero
C13_BoundaryDegenerate ==
    /\ OnBoundary
    /\ ZeroDenominator

\* a call on the boundary with bracketed roots
C13_BoundaryBracketed ==
    /\ OnBoundary
    /\ ret.exc = ""
    /\ BracketedRoots


\* ---------------------------------------------------------------------------
\* C14: order and range of the quantiles

\* a returned call with the default levels, weights that are all >= 0 and a
\* denominator that is a non-zero number
ProperQuery ==
    /\ CondCallDone
    /\ ret.exc = ""
    /\ call.qtl = <<Q(16, 100), Q(84, 100)>>
    /\ \A k \in 1..Len(call.w_hat) : Le(Zero, call.w_hat[k])
    /\ IsFinite(loc.denominator)
    /\ ~IsZero(loc.denominator)

\* C14: for a conditioning value whose denominator is a non-zero number and
\* weights that are all non-negative, the quantile returned for level 0.16 is
\* strictly below the one returned for level 0.84, and both lie within the
\* bounds of the target dimension.
C14_QuantilesOrderedWithinBounds ==
    ProperQuery => /\ Lt(ret.quantile[1], ret.quantile[2])
                   /\ Le(call.b_min, ret.quantile[1])
                   /\ Le(ret.quantile[2], call.b_max)

\* such a query was answered, by either module
C14_Witness ==
    /\ ProperQuery
    /\ call.module = "mle_utils_nd"
    /\ Lt(call.a_min, call.a) /\ Lt(call.a, call.a_max)


(***************************************************************************)
(* The 2-D fit: MLE_fit of mle_utils.py                                    *)
(***************************************************************************)
\* points of the grids M_seq and R_seq (np.linspace(min, max, 100) in the code)
CurvePoints == 3

\* mle_utils.py 53-67
marginal_density(x, x_max, x_min, deg, w_hat, oracle) ==
    LET deg_vec == arange(1, deg + 1)
        x_beta_indv == find_indv_pdf(x, deg, deg_vec, x_max, x_min, None,
                                     QE(1, 1, -10), TRUE, oracle).val
        x_beta_pdf == Kron(x_beta_indv, Ones(deg))
    IN  WeightedSum(w_hat, x_beta_pdf)

\* np.reshape(w_hat, (deg, deg)).T.flatten()
TransposeWeights(w_hat, deg) ==
    Array([q \in 1..(deg * deg) |-> w_hat[((q - 1) % deg) * deg + ((q - 1) \div deg) + 1]])

\* one element of the list comprehensions of lines 326-327 and 334-335:
\* cond_density_quantile(...)[0:4]
CurvePoint(y, y_max, y_min, x_max, x_min, deg, w_hat, oracle, onNaN) ==
    LET r == Returned_2d(cond_density_quantile_2d(y, y_max, y_min, x_max, x_min, deg, w_hat,
                              None, <<Q(16, 100), Q(84, 100)>>, QE(1, 1, -10), oracle, onNaN))
    IN  IF r.exc # "" THEN r
        ELSE [exc |-> "", row |-> <<r.mean, r.var, r.quantile[1], r.quantile[2]>>,
              denominator |-> r.denominator]

\* lines 227-264
MLE_fit_2d_Enter ==
    /\ pc = "idle"
    /\ \E n \in 1..MaxN, deg \in 2..MaxDeg, noisy \in BOOLEAN, owo \in BOOLEAN,
          o \in QuadOracles, onNaN \in RootOnNaN :
         LET kinds == FitKinds(n)
         IN  /\ (~noisy => o = CHOOSE f \in QuadOracles : TRUE)
             /\ call' = [fn |-> "MLE_fit", module |-> "mle_utils",
                         Mass |-> [i \in 1..n |-> Q(KindOf(kinds[i], 1).p, 1)],
                         Radius |-> [i \in 1..n |-> Q(KindOf(kinds[i], 2).p, 1)],
                         Mass_sigma |-> IF noisy THEN [i \in 1..n |-> KindOf(kinds[i], 1).s]
                                        ELSE None,
                         Radius_sigma |-> IF noisy THEN [i \in 1..n |-> KindOf(kinds[i], 2).s]
                                          ELSE None,
                         Mass_bounds |-> DesignBounds, Radius_bounds |-> DesignBounds,
                         deg |-> deg, Log |-> TRUE, abs_tol |-> QE(1, 1, -10),
                         output_weights_only |-> owo, oracle |-> o, onNaN |-> onNaN]
             /\ fit' = [ndim |-> 2, n |-> n, C_pdf |-> <<>>, w_hat |-> <<>>,
                        M_seq |-> <<>>, R_seq |-> <<>>,
                        Mass_marg |-> <<>>, Radius_marg |-> <<>>,
                        M_cond_R |-> <<>>, R_cond_M |-> <<>>, denominators |-> <<>>]
    /\ pc' = "MLE_fit_2d_calc_C_matrix"
    /\ UNCHANGED <<ret, loc, numeric_work, cmat>>

\* lines 265-266
MLE_fit_2d_calc_C_matrix ==
    /\ pc = "MLE_fit_2d_calc_C_matrix"
    /\ cmat' = calc_C_matrix_2d(fit.n, call.deg, call.Mass, call.Mass_sigma,
                                call.Mass_bounds[2], call.Mass_bounds[1],
                                call.Radius, call.Radius_sigma,
                                call.Radius_bounds[2], call.Radius_bounds[1],
                                call.abs_tol, call.Log, call.oracle)
    /\ fit' = [fit EXCEPT !.C_pdf = cmat'.C_pdf]
    /\ pc' = "MLE_fit_2d_optimizer"
    /\ UNCHANGED <<call, ret, loc, numeric_work>>

\* lines 279-303: fmin_slsqp over deg**2 weights, each in [0, 1], that sum to 1
MLE_fit_2d_optimizer ==
    /\ pc = "MLE_fit_2d_optimizer"
    /\ \E w \in OptimizerWeights(call.deg * call.deg) :
         fit' = [fit EXCEPT !.w_hat = w]
    /\ pc' = "MLE_fit_2d_marginals"
    /\ UNCHANGED <<call, ret, loc, numeric_work, cmat>>

\* lines 311-322
MLE_fit_2d_marginals ==
    /\ pc = "MLE_fit_2d_marginals"
    /\ LET M_seq == linspace(call.Mass_bounds[1], call.Mass_bounds[2], CurvePoints)
           R_seq == linspace(call.Radius_bounds[1], call.Radius_bounds[2], CurvePoints)
       IN  fit' = [fit EXCEPT
                     !.M_seq = M_seq,
                     !.R_seq = R_seq,
                     !.Mass_marg = Array([k \in 1..CurvePoints |->
                         marginal_density(M_seq[k], call.Mass_bounds[2], call.Mass_bounds[1],
                                          call.deg, fit.w_hat, call.oracle)]),
                     !.Radius_marg = Array([k \in 1..CurvePoints |->
                         marginal_density(R_seq[k], call.Radius_bounds[2],
                                          call.Radius_bounds[1], call.deg, fit.w_hat,
                                          call.oracle)])]
    /\ pc' = "MLE_fit_2d_M_cond_R"
    /\ UNCHANGED <<call, ret, loc, numeric_work, cmat>>

\* what one more element does to a list comprehension: the row is appended,
\* or the exception leaves MLE_fit
CurveStep(p, curve, next) ==
    IF p.exc # ""
    THEN /\ ret' = [exc |-> p.exc]
         /\ pc' = "done"
         /\ UNCHANGED fit
    ELSE /\ fit' = [fit EXCEPT ![curve] = Append(@, p.row),
                               !.denominators = Append(@, p.denominator)]
         /\ pc' = (IF Len(fit[curve]) + 1 = CurvePoints THEN next ELSE pc)
         /\ UNCHANGED ret

\* lines 326-327, one grid point r of R_seq
MLE_fit_2d_M_cond_R ==
    /\ pc = "MLE_fit_2d_M_cond_R"
    /\ CurveStep(CurvePoint(fit.R_seq[Len(fit.M_cond_R) + 1],
                            call.Radius_bounds[2], call.Radius_bounds[1],
                            call.Mass_bounds[2], call.Mass_bounds[1],
                            call.deg, fit.w_hat, call.oracle, call.onNaN),
                 "M_cond_R", "MLE_fit_2d_R_cond_M")
    /\ UNCHANGED <<call, loc, numeric_work, cmat>>

\* lines 334-335, one grid point m of M_seq
MLE_fit_2d_R_cond_M ==
    /\ pc = "MLE_fit_2d_R_cond_M"
    /\ CurveStep(CurvePoint(fit.M_seq[Len(fit.R_cond_M) + 1],
                            call.Mass_bounds[2], call.Mass_bounds[1],
                            call.Radius_bounds[2], call.Radius_bounds[1],
                            call.deg, TransposeWeights(fit.w_hat, call.deg),
                            call.oracle, call.onNaN),
                 "R_cond_M", "MLE_fit_2d_return")
    /\ UNCHANGED <<call, loc, numeric_work, cmat>>

\* lines 318-324 and 340-352
MLE_fit_2d_return ==
    /\ pc = "MLE_fit_2d_return"
    /\ ret' = IF call.output_weights_only
              THEN [exc |-> "", w_hat |-> fit.w_hat]
              ELSE [exc |-> "",
                    output |-> [weights |-> fit.w_hat,
                                M_points |-> fit.M_seq, R_points |-> fit.R_seq,
                                Mass_marg |-> fit.Mass_marg,
                                Radius_marg |-> fit.Radius_marg,
                                M_cond_R |-> [k \in 1..CurvePoints |-> fit.M_cond_R[k][1]],
                                M_cond_R_var |-> [k \in 1..CurvePoints |-> fit.M_cond_R[k][2]],
                                M_cond_R_quantile |-> [k \in 1..CurvePoints |->
                                    SubSeq(fit.M_cond_R[k], 3, 4)],
                                R_cond_M |-> [k \in 1..CurvePoints |-> fit.R_cond_M[k][1]],
                                R_cond_M_var |-> [k \in 1..CurvePoints |-> fit.R_cond_M[k][2]],
                                R_cond_M_quantile |-> [k \in 1..CurvePoints |->
                                    SubSeq(fit.R_cond_M[k], 3, 4)]]]
    /\ pc' = "done"
    /\ UNCHANGED <<call, loc, numeric_work, cmat, fit>>

NextFit2D ==
    \/ MLE_fit_2d_Enter
    \/ MLE_fit_2d_calc_C_matrix
    \/ MLE_fit_2d_optimizer
    \/ MLE_fit_2d_marginals
    \/ MLE_fit_2d_M_cond_R
    \/ MLE_fit_2d_R_cond_M
    \/ MLE_fit_2d_return

SpecFit2D == Init /\ [][NextFit2D]_vars

\* ---------------------------------------------------------------------------
\* C12: a degenerate grid point of a conditional curve

Fit2DDone == pc = "done" /\ call # NoCall /\ call.fn = "MLE_fit" /\ call.module = "mle_utils"

\* row k of a curve carries NaN markers where its point is degenerate (zero
\* denominator) and numbers where it is not
RowMarked(row, denominator) ==
    IF IsNaN(denominator) THEN \A c \in 1..4 : IsNaN(row[c])
    ELSE \A c \in 1..4 : IsFinite(row[c])

\* C12: MLE_fit of mle_utils.py always completes both conditional curves
\* (M_cond_R and R_cond_M), one row per grid point; the row of a degenerate
\* grid point holds NaN for mean, variance and both quantiles, every other row
\* holds its computed numbers; no grid point makes MLE_fit end in an exception.
C12_CurvesCompleteWithNaNMarkers ==
    Fit2DDone =>
        /\ ret.exc = ""
        /\ Len(fit.M_cond_R) = CurvePoints
        /\ Len(fit.R_cond_M) = CurvePoints
        /\ \A k \in 1..CurvePoints :
             /\ RowMarked(fit.M_cond_R[k], fit.denominators[k])
             /\ RowMarked(fit.R_cond_M[k], fit.denominators[CurvePoints + k])

\* the part about abortion alone
C12_CurveNeverAborted ==
    Fit2DDone => ret.exc = ""

\* a curve was cut short by the exception of one grid point, after rows of
\* other grid points had been computed
C12_CurveAborted ==
    /\ Fit2DDone
    /\ ret.exc = "ValueError"
    /\ Len(fit.M_cond_R) > 0
    /\ Len(fit.M_cond_R) < CurvePoints

\* a curve was completed with a degenerate row whose quantiles are numbers
C12_DegenerateRowNotMarked ==
    /\ Fit2DDone
    /\ ret.exc = ""
    /\ \E k \in 1..CurvePoints :
         /\ IsNaN(fit.denominators[k])
         /\ IsNaN(fit.M_cond_R[k][1])
         /\ IsFinite(fit.M_cond_R[k][3])

\* ---------------------------------------------------------------------------
\* C18: the marginals MLE_fit reports

MarginalsDone ==
    /\ call # NoCall /\ call.fn = "MLE_fit" /\ call.module = "mle_utils"
    /\ pc \in {"MLE_fit_2d_M_cond_R", "MLE_fit_2d_R_cond_M", "MLE_fit_2d_return", "done"}

\* weight of basis pair (mass index i, radius index j) in the ordering of the
\* design matrix, np.kron(M_indv_pdf, R_indv_pdf): mass slow, radius fast
PairWeight(i, j) == fit.w_hat[(i - 1) * call.deg + j]

\* sum over d of B_d(x) times the total weight of the pairs whose index for
\* the dimension is d
MarginalOf(massDim, x, bounds) ==
    LET width == Sub(bounds[2], bounds[1])
        t == Div(Sub(x, bounds[1]), width)
    IN  SumSeq([d \in 1..call.deg |->
            Mul(AnalyticBeta(call.deg, d, t, width),
                SumSeq([o \in 1..call.deg |->
                    IF massDim THEN PairWeight(d, o) ELSE PairWeight(o, d)]))])

\* C18: at every grid point, Mass_marg is the marginal of the mass dimension
\* and Radius_marg the marginal of the radius dimension: the sum over the
\* dimension's basis index d of B_d(x) times the sum over the other index of
\* the weights of the pairs with index d, weights ordered mass slow, radius
\* fast as in the design matrix.
C18_MarginalsOfOwnDimension ==
    MarginalsDone =>
        \A k \in 1..CurvePoints :
            /\ fit.Mass_marg[k] = MarginalOf(TRUE, fit.M_seq[k], call.Mass_bounds)
            /\ fit.Radius_marg[k] = MarginalOf(FALSE, fit.R_seq[k], call.Radius_bounds)

\* the half of it that is about the mass
C18_MassMarginalOfMass ==
    MarginalsDone =>
        \A k \in 1..CurvePoints :
            fit.Mass_marg[k] = MarginalOf(TRUE, fit.M_seq[k], call.Mass_bounds)

\* what Radius_marg is: the mass marginal formula evaluated on the radius grid
C18_RadiusMarginalUsesMassWeights ==
    MarginalsDone =>
        \A k \in 1..CurvePoints :
            fit.Radius_marg[k] = MarginalOf(TRUE, fit.R_seq[k], call.Radius_bounds)

\* marginals computed for weights that are not symmetric in the two indices
C18_AsymmetricWeights ==
    /\ MarginalsDone
    /\ \E i, j \in 1..call.deg : PairWeight(i, j) # PairWeight(j, i)
    /\ \E k \in 1..CurvePoints :
         fit.Radius_marg[k] # MarginalOf(FALSE, fit.R_seq[k], call.Radius_bounds)


\* ---------------------------------------------------------------------------
\* C17: the joint distribution on the grid

\* the closed-form basis vector of dimension d (1-based) at grid point i
\* (0-based)
JointBasis(d, i) ==
    LET bounds == call.DataDict.ndim_bounds[d]
        width == Sub(bounds[2], bounds[1])
        t == Div(Sub(call.DataDict.DataSequence[d][i + 1], bounds[1]), width)
    IN  [k \in 1..call.deg_per_dim[d] |-> AnalyticBeta(call.deg_per_dim[d], k, t, width)]

RECURSIVE BasisProduct(_, _, _, _)
BasisProduct(B, idx, j, d) ==
    IF d = 0 THEN One ELSE Mul(BasisProduct(B, idx, j, d - 1), B[d][idx[d] + 1][j[d] + 1])

\* sum over the basis index tuples j of weights[j] * prod_d B_d,j_d(grid_d[i_d])
JointValue(idx) ==
    LET ndim == Len(call.deg_per_dim)
        B == [d \in 1..ndim |-> [i \in 1..GridN |-> JointBasis(d, i - 1)]]
        w == Reshape(fit.w_hat, call.deg_per_dim)
        js == SetToSeq(Indices(call.deg_per_dim))
    IN  SumSeq([q \in 1..Len(js) |-> Mul(w[js[q]], BasisProduct(B, idx, js[q], ndim))])

JointReturned == call.fn = "MLE_fit" /\ pc = "done" /\ ~call.output_weights_only

\* C17: the joint distribution MLE_fit returns holds, at every grid index
\* tuple (i_1, ..., i_D), the sum over all basis index tuples of the padded
\* weight times the product of the closed-form basis functions at the grid
\* points of the tuple; and while the grid is swept, the buffer row of every
\* outer dimension at the current index is the basis vector of the current
\* grid point, so a contraction never reads a row of another index tuple.
C17_JointIsWeightedBasisSum ==
    /\ JointReturned =>
          /\ DOMAIN ret.output.JointDist = Indices([d \in 1..fit.ndim |-> GridN])
          /\ \A idx \in DOMAIN ret.output.JointDist :
                ret.output.JointDist[idx] = JointValue(idx)
    /\ (call.fn = "MLE_fit" /\ pc = "JointRecursiveMess") =>
          \A d \in 1..loc.dim :
             loc.indv_pdf_per_dim[d][loc.Indices[d] + 1] = JointBasis(d, loc.Indices[d])

\* a joint distribution over two dimensions of different degrees, not zero in
\* the middle of the grid
C17_Witness ==
    /\ JointReturned
    /\ fit.ndim = 2
    /\ call.deg_per_dim = <<3, 4>>
    /\ Lt(Zero, ret.output.JointDist[<<1, 1>>])
    /\ ret.output.JointDist[<<1, 1>>] # ret.output.JointDist[<<1, 2>>]


(***************************************************************************)
(* Conditional queries: calculate_conditional_distribution of              *)
(* mle_utils_nd.py, asked of the output of a fit.                          *)
(***************************************************************************)
\* queries asked of one fit
MaxQueries == 2

\* DataDict['ndim_char']
DimChars == <<"x", "y", "z", "w">>

\* the run of the sweep of calculate_joint_distribution to its end
RECURSIVE JointSweep(_)
JointSweep(L) == IF L.dim = -1 THEN L ELSE JointSweep(JointRecursiveMess_pass(L))

\* np.sum(arr)
SumArray(arr) ==
    LET js == SetToSeq(DOMAIN arr)
    IN  SumSeq([q \in 1..Len(js) |-> arr[js[q]]])

\* an assignment in place of the copy: the same array under a second name
np_copy_same_array(x) == [alias |-> TRUE, val |-> x]

\* np.copy(x): a new array; writes to it do not reach x
np_copy(x) == [alias |-> FALSE, val |-> x]

\* np.arange(ndim)[np.isin(ndim_char, Terms)], 1-based and ascending
RECURSIVE DimensionsOf(_, _, _)
DimensionsOf(ndim_char, Terms, d) ==
    IF d > Len(ndim_char) THEN <<>>
    ELSE (IF ndim_char[d] \in LettersOf(Terms) THEN <<d>> ELSE <<>>)
            \o DimensionsOf(ndim_char, Terms, d + 1)

\* scipy.interpolate.interpn(points, values, xi) at one point xi, method
\* 'linear': the value between the grid points of dimension d, d + 1, ...
RECURSIVE Multilinear(_, _, _, _, _)
Multilinear(points, values, xi, d, prefix) ==
    IF d > Len(points) THEN values[prefix]
    ELSE LET g == points[d]
             k == CHOOSE k \in 1..(Len(g) - 1) : Le(g[k], xi[d]) /\ Le(xi[d], g[k + 1])
             t == Div(Sub(xi[d], g[k]), Sub(g[k + 1], g[k]))
         IN  Add(Mul(Sub(One, t), Multilinear(points, values, xi, d + 1, prefix \o <<k - 1>>)),
                 Mul(t, Multilinear(points, values, xi, d + 1, prefix \o <<k>>)))

\* interpn over the NSeq points whose coordinates are the columns of xi; a
\* point outside the grid raises ValueError (bounds_error=True)
interpn(points, values, xi, NSeq) ==
    IF \E d \in 1..Len(points), k \in 1..NSeq :
          ~(Le(points[d][1], xi[d][k]) /\ Le(xi[d][k], points[d][Len(points[d])]))
    THEN [exc |-> "ValueError"]
    ELSE [exc |-> "",
          val |-> Array([k \in 1..NSeq |->
                     Multilinear(points, values, [d \in 1..Len(points) |-> xi[d][k]],
                                 1, <<>>)])]

\* a_std = uncertainty / measurement / ln(10) (line 427): NaN and 0 stay what
\* they are, any other uncertainty gives a positive number
QueryStd(uncertainty, measurement) ==
    IF IsNaN(uncertainty) THEN NaN
    ELSE IF IsZero(uncertainty) THEN Zero
    ELSE Q(1, 10)

\* the loop of lines 424-437 from its pass j on: temp_denominator and
\* InputIndices after it
RECURSIVE ContractConditions(_, _, _, _)
ContractConditions(X, temp_denominator, InputIndices, j) ==
    IF j > Len(X.RHSTerms)
    THEN [temp_denominator |-> temp_denominator, InputIndices |-> InputIndices]
    ELSE LET rdim == X.RHSDimensions[j]
             M == X.MeasurementDict[X.RHSTerms[j]]
             indv_pdf == _find_indv_pdf(log10(M[1][1]), X.deg_per_dim[rdim],
                                        arange(1, X.deg_per_dim[rdim] + 1),
                                        X.DataDict.ndim_bounds[rdim][2],
                                        X.DataDict.ndim_bounds[rdim][1],
                                        QueryStd(M[2][1], M[1][1]), DefaultAbsTol, FALSE,
                                        X.oracle).val
             ProductIndices == SelectSeq(InputIndices, LAMBDA c : c # Alphabets[rdim])
             Subscripts == [A |-> InputIndices, B |-> <<Alphabets[rdim]>>,
                            out |-> ProductIndices]
         IN  ContractConditions(X,
                 TensorMultiplication(temp_denominator,
                                      Reshape(indv_pdf, <<X.deg_per_dim[rdim]>>),
                                      Subscripts).C,
                 ProductIndices, j + 1)

\* mle_utils_nd.py 338-456.  ConditionString is given split: its terms left
\* and right of '|'.  The result holds the outcome, the locals, and what
\* DataDict['DataSequence'] is after the call.
calculate_conditional_distribution(ConditionString, DataDict, weights, deg_per_dim, JointDist, MeasurementDict, oracle) ==
    LET LHSTerms == ConditionString.LHS
        RHSTerms == ConditionString.RHS
        LHSDimensions == DimensionsOf(DataDict.ndim_char, LHSTerms, 1)
        RHSDimensions == DimensionsOf(DataDict.ndim_char, RHSTerms, 1)
        NPoints == Len(MeasurementDict[RHSTerms[1]][1])
        Denominator == [k \in 1..NPoints |-> Zero]
        Numerator == [k \in 1..NPoints |-> Zero]
        ReshapedWeights == Reshape(weights, deg_per_dim)
        NSeq == Len(DataDict.DataSequence[RHSDimensions[1]])
        copy == np_copy(DataDict.DataSequence)
        InterpSlices ==
            [d \in 1..DataDict.ndim |->
                IF \E j \in 1..Len(RHSTerms) : RHSDimensions[j] = d
                THEN LET j == CHOOSE j \in 1..Len(RHSTerms) : RHSDimensions[j] = d
                     IN  [k \in 1..NSeq |-> log10(MeasurementDict[RHSTerms[j]][1][1])]
                ELSE copy.val[d]]
        DataSequence == IF copy.alias THEN InterpSlices ELSE DataDict.DataSequence
        SliceofJoint == interpn(DataSequence, JointDist, InterpSlices, NSeq)
        X == [RHSTerms |-> RHSTerms, RHSDimensions |-> RHSDimensions,
              MeasurementDict |-> MeasurementDict, deg_per_dim |-> deg_per_dim,
              DataDict |-> DataDict, oracle |-> oracle]
        folded == ContractConditions(X, ReshapedWeights,
                                     SubSeq(Alphabets, 1, DataDict.ndim), 1)
        temp_denominator == folded.temp_denominator
        total == SumArray(temp_denominator)
    IN  IF SliceofJoint.exc # ""
        THEN [exc |-> SliceofJoint.exc, DataSequence |-> DataSequence]
        ELSE [exc |-> "",
              Numerator |-> Numerator,
              Denominator |-> Denominator,
              SliceofJoint |-> SliceofJoint.val,
              temp_denominator |-> temp_denominator,
              InputIndices |-> folded.InputIndices,
              RHSTerms |-> RHSTerms,
              RHSDimensions |-> RHSDimensions,
              InterpSlices |-> InterpSlices,
              ConditionalDist |-> Array([k \in 1..NSeq |-> Div(SliceofJoint.val[k], total)]),
              DataSequence |-> DataSequence]

\* the output of MLE_fit for D dimensions, as calculate_conditional_distribution
\* is handed it: DataDict with its grids, the padded weights, the joint
\* distribution
FitOutput(ndim, deg_per_dim, unpadded_weight) ==
    LET DataDict == [ndim |-> ndim,
                     ndim_char |-> SubSeq(DimChars, 1, ndim),
                     ndim_bounds |-> [d \in 1..ndim |-> DesignBounds],
                     DataSequence |-> [d \in 1..ndim |->
                         linspace(DesignBounds[1], DesignBounds[2], GridN)]]
        w_hat == PadWeights([ndim |-> ndim, DataLength |-> 0, C_pdf |-> <<>>,
                             unpadded_weight |-> unpadded_weight], deg_per_dim).w_hat
    IN  [ndim |-> ndim, DataDict |-> DataDict, deg_per_dim |-> deg_per_dim,
         weights |-> w_hat,
         JointDist |-> JointSweep(JointLocals(DataDict, w_hat, deg_per_dim)).joint,
         queries |-> 0]

\* MLE_fit, lines 87-216, in one step
MLE_fit_whole ==
    /\ pc = "idle"
    /\ \E ndim \in 2..MaxDim :
         \E degs \in FitDegrees(ndim) :
            \E w \in OptimizerWeights(Product([d \in 1..ndim |-> degs[d] - 2])) :
                fit' = FitOutput(ndim, degs, w)
    /\ pc' = "fitted"
    /\ UNCHANGED <<call, ret, loc, numeric_work, cmat>>

\* 'l|r...': one dimension on the left, on the right the next dimension or
\* all the other dimensions
ConditionStrings(ndim) ==
    {[LHS |-> <<DimChars[l]>>, RHS |-> <<DimChars[(l % ndim) + 1]>>] : l \in 1..ndim}
        \cup {[LHS |-> <<DimChars[l]>>,
               RHS |-> SelectSeq(SubSeq(DimChars, 1, ndim), LAMBDA c : c # DimChars[l])] :
                l \in 1..ndim}

\* the measurement conditioned on and its uncertainty: on the grid's ends, in
\* the grid and beyond it; exact or with a real uncertainty (then several
\* measurements are given)
QueryMeasurements ==
    {<<m, NaN, 1>> : m \in {Q(1, 1), Q(10, 1), Q(1000, 1)}}
        \cup {<<Q(100, 1), Q(1, 10), MaxN>>}

Query_calculate_conditional_distribution ==
    /\ pc = "fitted"
    /\ fit.queries < MaxQueries
    /\ \E cs \in ConditionStrings(fit.ndim), q \in QueryMeasurements :
         LET MeasurementDict ==
                 [c \in LettersOf(cs.RHS) |->
                     <<[k \in 1..q[3] |-> IF k = 1 THEN q[1] ELSE Q(10, 1)],
                       [k \in 1..q[3] |-> q[2]]>>]
             o == CHOOSE f \in QuadOracles : TRUE
         IN  /\ call' = [fn |-> "calculate_conditional_distribution",
                         ConditionString |-> cs, MeasurementDict |-> MeasurementDict,
                         oracle |-> o]
             /\ loc' = calculate_conditional_distribution(cs, fit.DataDict, fit.weights,
                           fit.deg_per_dim, fit.JointDist, MeasurementDict, o)
             /\ ret' = IF loc'.exc # "" THEN [exc |-> loc'.exc]
                       ELSE [exc |-> "", Numerator |-> loc'.Numerator,
                             Denominator |-> loc'.Denominator]
             /\ fit' = [fit EXCEPT !.queries = @ + 1,
                                   !.DataDict.DataSequence = loc'.DataSequence]
    /\ pc' = "fitted"
    /\ UNCHANGED <<numeric_work, cmat>>

NextQuery == MLE_fit_whole \/ Query_calculate_conditional_distribution

SpecQuery == Init /\ [][NextQuery]_vars

\* ---------------------------------------------------------------------------
\* C19: what calculate_conditional_distribution returns

QueryReturned ==
    /\ pc = "fitted"
    /\ call # NoCall
    /\ call.fn = "calculate_conditional_distribution"
    /\ ret.exc = ""

\* C19: calculate_conditional_distribution returns the conditional
\* distribution it computes, the interpolated slice of the joint distribution
\* divided by the sum of the weights contracted with the basis vectors of the
\* conditioning dimensions, so that what it returns depends on JointDist, the
\* weights and the measurements.
C19_ReturnsConditionalDistribution ==
    QueryReturned =>
        \/ ret.Numerator = loc.ConditionalDist
        \/ ret.Denominator = loc.ConditionalDist
        \/ /\ Len(ret.Numerator) = Len(loc.ConditionalDist)
           /\ \A k \in 1..Len(ret.Numerator) :
                Div(ret.Numerator[k], ret.Denominator[k]) = loc.ConditionalDist[k]

\* what it does return: two arrays of zeros, one entry per measurement
C19_ReturnsZeros ==
    QueryReturned =>
        /\ Len(ret.Numerator) = Len(call.MeasurementDict[call.ConditionString.RHS[1]][1])
        /\ Len(ret.Denominator) = Len(ret.Numerator)
        /\ \A k \in 1..Len(ret.Numerator) : ret.Numerator[k] = Zero /\ ret.Denominator[k] = Zero

\* a query whose conditional distribution is positive somewhere
C19_DistributionComputed ==
    /\ QueryReturned
    /\ \E k \in 1..Len(loc.ConditionalDist) : Lt(Zero, loc.ConditionalDist[k])

\* ---------------------------------------------------------------------------
\* C20: a query leaves the fit alone

\* C20: every call of calculate_conditional_distribution, the first and the
\* later ones, returning or raising, leaves JointDist, the padded weights and
\* DataDict['DataSequence'] exactly as they were.
C20_QueryLeavesFitUnchanged ==
    [][(pc = "fitted") =>
          /\ fit'.JointDist = fit.JointDist
          /\ fit'.weights = fit.weights
          /\ fit'.DataDict = fit.DataDict]_vars

\* the grid after the queries is the grid MLE_fit made
C20_GridKept ==
    (pc = "fitted") =>
        fit.DataDict.DataSequence =
            [d \in 1..fit.ndim |-> linspace(DesignBounds[1], DesignBounds[2], GridN)]

\* two queries were answered, the last between two grid points or on one
C20_Witness ==
    /\ QueryReturned
    /\ fit.queries = 2
    /\ \E k \in 1..Len(loc.ConditionalDist) : Lt(Zero, loc.ConditionalDist[k])


(***************************************************************************)
(* The loop of calc_C_matrix with its iterations run as tasks.  A task is  *)
(* one iteration i of the loop over the observations; a step is one        *)
(* statement of its body.  The buffers and the matrix are shared; kron_temp *)
(* is assigned at the top of every iteration (line 244) before it is read, *)
(* so a task holds its own.  Row i is observation i + 1 of the model.      *)
(* cmat.writes and cmat.reads hold <<array, dimension, row, iteration>> for *)
(* every row written and read; cmat.interleaved tells whether a statement  *)
(* ran while another iteration was under way.                              *)
(***************************************************************************)
\* the statements of one iteration: N-D, per dimension the assignment of the
\* buffer row (246-251) and the Kronecker product (253), then line 254; 2-D,
\* lines 206, 207 and 210
Statements(c) == IF c.module = "mle_utils_nd" THEN 2 * c.ndim + 1 ELSE 3

\* the row an iteration's statement indexes: always the one of another
\* iteration's observation
RowOf_shared_row(i) == 1

\* the row an iteration's statement indexes: [i, :]
RowOf(i) == i

\* the basis vector the statement at position p of iteration i assigns
IterationBasis(c, i, dim) ==
    IF c.module = "mle_utils_nd"
    THEN _find_indv_pdf(c.DataDict.ndim_data[dim][i], c.deg_per_dim[dim],
                        arange(1, c.deg_per_dim[dim] - 1),
                        c.DataDict.ndim_bounds[dim][2], c.DataDict.ndim_bounds[dim][1],
                        c.DataDict.ndim_sigma[dim][i], DefaultAbsTol, c.Log, c.oracle).val
    ELSE find_indv_pdf(c.DataDict.ndim_data[dim][i], c.deg_per_dim[dim],
                       arange(1, c.deg_per_dim[dim] + 1),
                       c.DataDict.ndim_bounds[dim][2], c.DataDict.ndim_bounds[dim][1],
                       c.DataDict.ndim_sigma[dim][i], c.abs_tol, c.Log, c.oracle).val

\* the statement at position p of iteration i, run on the shared arrays S by
\* the task whose kron_temp is k: the arrays and kron_temp after it, with
\* the rows it wrote and the rows it read
IterationStatement(c, S, i, p, k) ==
    LET row == RowOf(i)
        nd == c.module = "mle_utils_nd"
        dim == IF nd THEN (p \div 2) + 1 ELSE p + 1
        assign == IF nd THEN p < 2 * c.ndim /\ p % 2 = 0 ELSE p < 2
        kron == nd /\ p < 2 * c.ndim /\ p % 2 = 1
    IN  IF assign
        THEN [S |-> [S EXCEPT !.indv_pdf_per_dim[dim][row] = IterationBasis(c, i, dim),
                              !.writes = @ \cup {<<"indv_pdf_per_dim", dim, row, i>>}],
              kron_temp |-> IF p = 0 THEN <<One>> ELSE k]
        ELSE IF kron
        THEN [S |-> [S EXCEPT !.reads = @ \cup {<<"indv_pdf_per_dim", dim, row, i>>}],
              kron_temp |-> Kron(S.indv_pdf_per_dim[dim][row], k)]
        ELSE [S |-> [S EXCEPT
                        !.C_pdf[row] =
                            IF nd THEN k
                            ELSE Kron(S.indv_pdf_per_dim[1][row], S.indv_pdf_per_dim[2][row]),
                        !.writes = @ \cup {<<"C_pdf", 0, row, i>>},
                        !.reads = @ \cup (IF nd THEN {}
                                          ELSE {<<"indv_pdf_per_dim", 1, row, i>>,
                                                <<"indv_pdf_per_dim", 2, row, i>>})],
              kron_temp |-> k]

\* the data sets of the loop: observations of consecutive kinds from the
\* first or the fourth kind on
LoopKinds(n) ==
    {[i \in 1..n |-> ((k0 + i - 2) % Len(ObsKinds)) + 1] : k0 \in {1, 4}}

\* degrees of the loop: 3 in every dimension, or rising from 3
LoopDegrees(ndim) == {[d \in 1..ndim |-> 3], [d \in 1..ndim |-> 2 + d]}

\* lines 226-240 (N-D), 186-203 (2-D, with uncertainties): the buffers and
\* the matrix are allocated with zeros
Loop_calc_C_matrix_Enter ==
    /\ pc = "idle"
    /\ \E module \in {"mle_utils_nd", "mle_utils"}, n \in 1..MaxN, ndim \in 1..MaxDim,
          lg \in BOOLEAN :
         \E kinds \in LoopKinds(n), degs \in LoopDegrees(ndim) :
            LET o == CHOOSE f \in QuadOracles : f[1] # Zero
                nd == module = "mle_utils_nd"
                width == [d \in 1..ndim |-> IF nd THEN degs[d] - 2 ELSE degs[1]]
            IN  /\ (~nd) => (ndim = 2 /\ degs[2] = degs[1])
                /\ call' = [fn |-> "calc_C_matrix_loop", module |-> module, ndim |-> ndim,
                            n |-> n, DataDict |-> DesignDataDict(kinds, ndim, lg),
                            deg_per_dim |-> degs, abs_tol |-> DefaultAbsTol, Log |-> lg,
                            oracle |-> o]
                /\ cmat' = [indv_pdf_per_dim |-> [d \in 1..ndim |-> zeros(n, width[d])],
                            C_pdf |-> zeros(n, Product(width)),
                            writes |-> {}, reads |-> {}, interleaved |-> FALSE]
                /\ loc' = [i \in 1..n |-> [pos |-> 0, kron_temp |-> <<>>]]
    /\ pc' = "calc_C_matrix_loop"
    /\ UNCHANGED <<ret, numeric_work, fit>>

\* the next statement of one of the iterations that have not finished
Loop_iteration ==
    /\ pc = "calc_C_matrix_loop"
    /\ \E i \in 1..call.n :
         /\ loc[i].pos < Statements(call)
         /\ LET r == IterationStatement(call, cmat, i, loc[i].pos, loc[i].kron_temp)
            IN  /\ cmat' = [r.S EXCEPT !.interleaved =
                                @ \/ \E j \in 1..call.n :
                                        j # i /\ loc[j].pos \in 1..(Statements(call) - 1)]
                /\ loc' = [loc EXCEPT ![i] = [pos |-> loc[i].pos + 1,
                                              kron_temp |-> r.kron_temp]]
    /\ UNCHANGED <<pc, call, ret, numeric_work, fit>>

\* lines 256-264 (N-D), 212-218 (2-D), once every iteration has finished
Loop_calc_C_matrix_return ==
    /\ pc = "calc_C_matrix_loop"
    /\ \A i \in 1..call.n : loc[i].pos = Statements(call)
    /\ ret' = [exc |-> "", C_pdf |-> FloorMatrix(Transpose(cmat.C_pdf))]
    /\ pc' = "done"
    /\ UNCHANGED <<call, loc, numeric_work, cmat, fit>>

NextLoop == Loop_calc_C_matrix_Enter \/ Loop_iteration \/ Loop_calc_C_matrix_return

SpecLoop == Init /\ [][NextLoop]_vars

\* the matrix the sequential loop returns for the same arguments
SequentialMatrix ==
    IF call.module = "mle_utils_nd"
    THEN calc_C_matrix(call.DataDict, call.deg_per_dim, call.abs_tol, call.Log,
                       call.oracle).C_pdf
    ELSE calc_C_matrix_2d(call.n, call.deg_per_dim[1],
                          call.DataDict.ndim_data[1], call.DataDict.ndim_sigma[1],
                          call.DataDict.ndim_bounds[1][2], call.DataDict.ndim_bounds[1][1],
                          call.DataDict.ndim_data[2], call.DataDict.ndim_sigma[2],
                          call.DataDict.ndim_bounds[2][2], call.DataDict.ndim_bounds[2][1],
                          call.abs_tol, call.Log, call.oracle).C_pdf

InLoop == call.fn = "calc_C_matrix_loop" /\ pc \in {"calc_C_matrix_loop", "done"}

StepRank(p) ==
    CASE p = "idle" -> 0
      [] p = "MLE_fit_calc_C_matrix" -> 1
      [] p = "MLE_fit_optimizer" -> 2
      [] p = "MLE_fit_pad" -> 3
      [] p = "MLE_fit_padded" -> 4
      [] p = "JointRecursiveMess" -> 5
      [] p = "MLE_fit_JointDist" -> 6
      [] p = "done" -> 7

\* C22: within one MLE_fit call every step moves forward in the order design
\* matrix, optimizer, padding, joint density, each run at most once (only
\* the sweep of the joint density repeats, in its own loop): the design
\* matrix is written by the first step only, the optimizer is not invoked
\* again whatever its exit mode, the joint density is assembled from the
\* padded weights, and the weights the optimizer returned are never changed.
C22_StepsInOrderOnce ==
    [][(pc # "idle") =>
          /\ \/ StepRank(pc') > StepRank(pc)
             \/ pc = "JointRecursiveMess" /\ pc' = pc
          /\ (cmat' # cmat) => pc = "MLE_fit_calc_C_matrix"
          /\ (pc = "MLE_fit_optimizer") => StepRank(pc') = 3
          /\ (StepRank(pc) >= 2) => fit'.C_pdf = fit.C_pdf
          /\ (StepRank(pc) >= 3) => fit'.unpadded_weight = fit.unpadded_weight
          /\ (StepRank(pc) >= 4) => fit'.w_hat = fit.w_hat
          /\ (pc' = "JointRecursiveMess") =>
                /\ loc'.weights = fit.w_hat
                /\ fit.w_hat = Flatten(PadInterior(ZerosArray(call.deg_per_dim),
                                   Reshape(fit.unpadded_weight,
                                       [d \in 1..fit.ndim |-> call.deg_per_dim[d] - 2])),
                                   call.deg_per_dim)
          /\ (StepRank(pc') < 5) => loc' = NoLocals
          /\ (pc' = "JointRecursiveMess" /\ pc # pc') =>
                \A idx \in DOMAIN loc'.joint : loc'.joint[idx] = Zero]_vars

\* a fit whose optimizer stopped at its iteration limit went on to the joint
\* density and returned it
C22_Witness ==
    /\ pc = "done"
    /\ call.fn = "MLE_fit"
    /\ fit.imode = 9
    /\ fit.ndim = 2
    /\ "output" \in DOMAIN ret
    /\ "JointDist" \in DOMAIN ret.output
    /\ \E idx \in DOMAIN ret.output.JointDist : Lt(Zero, ret.output.JointDist[idx])


(***************************************************************************)
(* calculate_joint_distribution of mle_utils_nd.py called on its own, for  *)
(* grids of any resolution.                                                *)
(***************************************************************************)
\* lines 533-560, for D dimensions, R grid points per dimension and padded
\* weights
calculate_joint_distribution_Enter ==
    /\ pc = "idle"
    /\ \E D \in 1..MaxDim, R \in 1..GridN :
         \E degs \in LoopDegrees(D) :
            \E w \in OptimizerWeights(Product([d \in 1..D |-> degs[d] - 2])) :
                LET DataDict == [ndim |-> D,
                                 ndim_bounds |-> [d \in 1..D |-> DesignBounds],
                                 DataSequence |-> [d \in 1..D |->
                                     linspace(DesignBounds[1], DesignBounds[2], R)]]
                    weights == PadWeights([ndim |-> D, unpadded_weight |-> w], degs).w_hat
                IN  /\ call' = [fn |-> "calculate_joint_distribution", DataDict |-> DataDict,
                                weights |-> weights, deg_per_dim |-> degs]
                    /\ loc' = JointLocals(DataDict, weights, degs)
    /\ pc' = "JointRecursiveMess"
    /\ UNCHANGED <<ret, numeric_work, cmat, fit>>

\* line 593
calculate_joint_distribution_return ==
    /\ pc = "MLE_fit_JointDist"
    /\ call.fn = "calculate_joint_distribution"
    /\ ret' = [exc |-> "", joint |-> loc.joint, indv_pdf_per_dim |-> loc.indv_pdf_per_dim]
    /\ pc' = "done"
    /\ UNCHANGED <<call, loc, numeric_work, cmat, fit>>

NextJoint ==
    \/ calculate_joint_distribution_Enter
    \/ JointRecursiveMess
    \/ calculate_joint_distribution_return

SpecJoint == Init /\ [][NextJoint]_vars

\* R + R^2 + ... + R^D: the passes through the loop body of all levels
RECURSIVE PassesOfSweep(_, _)
PassesOfSweep(R, D) == IF D = 0 THEN 0 ELSE R * (1 + PassesOfSweep(R, D - 1))

InJoint == call.fn = "calculate_joint_distribution" /\ pc # "idle"

\* C23: calculate_joint_distribution terminates for every number of
\* dimensions D >= 1 and every grid resolution R >= 1: the nesting of
\* JointRecursiveMess never exceeds D and reaches D, every step of the sweep
\* is one more pass through a loop body, of which there are R + ... + R^D
\* and no more, there is always a next pass to run until the sweep is over,
\* and when it returns every one of the R^D cells of joint has been assigned
\* exactly once, none twice on the way.
C23_TerminatesEveryCellOnce ==
    /\ [](InJoint =>
            /\ loc.depth <= call.DataDict.ndim
            /\ loc.passes <= PassesOfSweep(loc.NPoints, call.DataDict.ndim)
            /\ \A idx \in DOMAIN loc.assigned : loc.assigned[idx] <= 1
            /\ (pc = "JointRecursiveMess") =>
                  /\ loc.dim \in 0..(call.DataDict.ndim - 1)
                  /\ loc.i \in 0..(loc.NPoints - 1)
            /\ (pc \in {"MLE_fit_JointDist", "done"}) =>
                  /\ loc.depth = call.DataDict.ndim
                  /\ loc.passes = PassesOfSweep(loc.NPoints, call.DataDict.ndim)
                  /\ DOMAIN loc.joint =
                        Indices([d \in 1..call.DataDict.ndim |-> loc.NPoints])
                  /\ DOMAIN loc.assigned = DOMAIN loc.joint
                  /\ \A idx \in DOMAIN loc.assigned : loc.assigned[idx] = 1)
    /\ [][(pc = "JointRecursiveMess") =>
             /\ loc'.passes = loc.passes + 1
             /\ pc' \in {"JointRecursiveMess", "MLE_fit_JointDist"}]_vars

\* a sweep of two dimensions and at least two points per dimension has
\* returned a joint with a positive cell
C23_Witness ==
    /\ InJoint
    /\ pc = "done"
    /\ call.DataDict.ndim = 2
    /\ loc.NPoints >= 2
    /\ Cardinality(DOMAIN ret.joint) = loc.NPoints * loc.NPoints
    /\ \E idx \in DOMAIN ret.joint : Lt(Zero, ret.joint[idx])

\* a grid of a single point is swept too
C23_SinglePointGrid ==
    /\ InJoint
    /\ pc = "done"
    /\ loc.NPoints = 1
    /\ loc.assigned = [idx \in DOMAIN loc.joint |-> 1]


\* ---------------------------------------------------------------------------
\* C24: the tolerance of the quadrature of the design matrix

DesignMatrixBuilt == call.fn = "MLE_fit" /\ StepRank(pc) >= 2

\* C24: the absolute tolerance the caller passes to MLE_fit is the tolerance
\* of every quadrature call made while the design matrix is built: each
\* integrate_function call made from calc_C_matrix runs with epsabs = abs_tol.
C24_CallerToleranceUsed ==
    DesignMatrixBuilt => \A e \in cmat.epsabs : e = call.abs_tol

\* what the quadrature of the N-D design matrix runs with: the default of
\* _find_indv_pdf, 1e-8, whatever the caller passed
C24_DefaultToleranceUsed ==
    DesignMatrixBuilt => \A e \in cmat.epsabs : e = QE(1, 1, -8)

\* a fit with abs_tol = 1e-10 whose design matrix needed the quadrature
C24_QuadratureRan ==
    /\ DesignMatrixBuilt
    /\ call.abs_tol = QE(1, 1, -10)
    /\ cmat.epsabs # {}
    /\ \E dim \in 1..fit.ndim : \E i \in 1..fit.DataLength : cmat.branches[dim][i] = "quad"


\* ---------------------------------------------------------------------------
\* C25: the order of the dimensions in the design matrix and in the weights

\* the shape of the optimizer's weights once reshaped (line 139)
UnpaddedShape == [d \in 1..fit.ndim |-> call.deg_per_dim[d] - 2]

\* the product of observation i's basis values, dimension a's taken at the
\* index j[a] (0-based) of axis a
RECURSIVE BasisAt(_, _, _)
BasisAt(i, j, a) ==
    IF a = 0 THEN One
    ELSE Mul(cmat.indv_pdf_per_dim[a][i][j[a] + 1], BasisAt(i, j, a - 1))

\* C25: the order of the dimensions is the same on both sides of the
\* optimizer: the weight at index (j_1, ..., j_D) of the reshaped hypercube,
\* whose axis a the joint assembly contracts with the basis of dimension a,
\* is the weight of the row of the design matrix that holds, for every
\* observation, the product of the basis values of dimension a at j_a; for
\* any D >= 2 and any degrees.
C25_AxesFollowDesignOrder ==
    Padded =>
        \A j \in DOMAIN fit.w_sq : \A i \in 1..fit.DataLength :
            cmat.C_T[COffset(j, UnpaddedShape, fit.ndim) + 1][i] = BasisAt(i, j, fit.ndim)

\* what holds instead: the rows of the design matrix run through the basis
\* indices with the first dimension fastest, the reshaping of the weights
\* with the last axis fastest
C25_DesignRowsFirstDimensionFastest ==
    Padded =>
        \A j \in DOMAIN fit.w_sq : \A i \in 1..fit.DataLength :
            cmat.C_T[FOffset(j, UnpaddedShape, 1) + 1][i] = BasisAt(i, j, fit.ndim)

\* a fit of two dimensions of degree 4 whose weight at (0, 1) stands for
\* another row of the design matrix than the one of the basis pair (0, 1)
C25_AxesSwapped ==
    /\ Padded
    /\ call.deg_per_dim = <<4, 4>>
    /\ cmat.C_T[COffset(<<0, 1>>, UnpaddedShape, 2) + 1][1] # BasisAt(1, <<0, 1>>, 2)
    /\ cmat.C_T[COffset(<<0, 1>>, UnpaddedShape, 2) + 1][1] = BasisAt(1, <<1, 0>>, 2)


\* ---------------------------------------------------------------------------
\* C26: the basis function of a weight before and after padding

JointStarted ==
    /\ call.fn = "MLE_fit"
    /\ pc \in {"JointRecursiveMess", "MLE_fit_JointDist", "done"}
    /\ ~call.output_weights_only

\* C26: each fitted weight multiplies the same basis function before and
\* after padding: the Beta basis (a = d, b = degree - d + 1) that filled a
\* weight's row of the design matrix, the weight being at index j of its
\* dimension's axis, is the basis the weight multiplies at its interior
\* index j + 1 of the padded hypercube when the joint density is assembled.
\* The degree is the same on both sides, so the bases are equal exactly when
\* their first shape parameters d are.
C26_SameBasisAfterPadding ==
    JointStarted =>
        \A dim \in 1..fit.ndim : \A j \in 0..(call.deg_per_dim[dim] - 3) :
            cmat.deg_vec_per_dim[dim][j + 1] = loc.deg_vec_per_dim[dim][(j + 1) + 1]

\* what holds instead: the weight fitted to the basis d multiplies the basis
\* d + 1 in the joint density
C26_BasisShiftedByOne ==
    JointStarted =>
        \A dim \in 1..fit.ndim : \A j \in 0..(call.deg_per_dim[dim] - 3) :
            /\ cmat.deg_vec_per_dim[dim][j + 1] = j + 1
            /\ loc.deg_vec_per_dim[dim][(j + 1) + 1] = j + 2

\* a fit of one dimension and degree 3: its one weight was fitted to the
\* basis d = 1 and sits at index 1 of the padded weights
C26_OneDimensionShifted ==
    /\ JointStarted
    /\ fit.ndim = 1
    /\ call.deg_per_dim = <<3>>
    /\ fit.w_hat = <<Zero, One, Zero>>
    /\ cmat.deg_vec_per_dim[1] = <<1>>
    /\ loc.deg_vec_per_dim[1] = <<1, 2, 3>>


\* ---------------------------------------------------------------------------
\* C28: the joint density on the boundary of the domain

\* the grid index tuples with a first or a last grid point in some dimension
OnDomainBoundary(idx) == \E d \in DOMAIN idx : idx[d] = 0 \/ idx[d] = GridN - 1

\* C28: with padded weights the joint density MLE_fit assembles is exactly
\* zero at every grid point on the boundary of the domain: at every index
\* tuple with the first grid index (the lower bound) or the last (the upper
\* bound) in at least one dimension; the first and last grid points are the
\* bounds themselves.
C28_JointZeroOnBoundary ==
    JointReturned =>
        /\ \A d \in 1..fit.ndim :
             /\ call.DataDict.DataSequence[d][1] = call.DataDict.ndim_bounds[d][1]
             /\ call.DataDict.DataSequence[d][GridN] = call.DataDict.ndim_bounds[d][2]
        /\ \A idx \in DOMAIN ret.output.JointDist :
             OnDomainBoundary(idx) => ret.output.JointDist[idx] = Zero

\* a joint density of two dimensions, positive inside the domain, with cells
\* on the lower and on the upper bound
C28_Witness ==
    /\ JointReturned
    /\ fit.ndim = 2
    /\ \E idx \in DOMAIN ret.output.JointDist :
         ~OnDomainBoundary(idx) /\ Lt(Zero, ret.output.JointDist[idx])
    /\ \E idx \in DOMAIN ret.output.JointDist :
         idx[1] = 0 /\ idx[2] = 1 /\ ret.output.JointDist[idx] = Zero
    /\ \E idx \in DOMAIN ret.output.JointDist :
         idx[1] = 1 /\ idx[2] = GridN - 1 /\ ret.output.JointDist[idx] = Zero


(***************************************************************************)
(* Conditional queries with several conditioning keys, listed in any       *)
(* order, asked of a fit of one dimension more than MaxDim.                *)
(***************************************************************************)
\* MLE_fit, lines 87-216, in one step, for MaxDim + 1 dimensions
MLE_fit_whole_more_dimensions ==
    /\ pc = "idle"
    /\ \E degs \in FitDegrees(MaxDim + 1) :
         \E w \in OptimizerWeights(Product([d \in 1..(MaxDim + 1) |-> degs[d] - 2])) :
            fit' = FitOutput(MaxDim + 1, degs, w)
    /\ pc' = "fitted"
    /\ UNCHANGED <<call, ret, loc, numeric_work, cmat>>

\* the sequences that list every element of the set S once
Orderings(S) ==
    {o \in [1..Cardinality(S) -> S] : \A a, b \in 1..Cardinality(S) : o[a] = o[b] => a = b}

\* 'l|r,...': one dimension on the left; on the right one or more of the
\* other dimensions, in every order
ConditionStringsAnyOrder(ndim) ==
    UNION {{[LHS |-> <<DimChars[l]>>, RHS |-> o] :
                o \in UNION {Orderings(R) :
                    R \in (SUBSET ({DimChars[d] : d \in 1..ndim} \ {DimChars[l]})) \ {{}}}} :
           l \in 1..ndim}

\* the measurement of the dimension with key c: 1, 10, 100, ... from the
\* first dimension on, so that the logarithm is 0, 1, 2, ...
MeasurementOf(c) ==
    Q(TenTo((CHOOSE d \in 1..Len(DimChars) : DimChars[d] = c) - 1), 1)

Query_conditions_any_order ==
    /\ pc = "fitted"
    /\ fit.queries < MaxQueries
    /\ \E cs \in ConditionStringsAnyOrder(fit.ndim), u \in {NaN, Q(1, 10)} :
         LET MeasurementDict ==
                 [c \in LettersOf(cs.RHS) |-> <<<<MeasurementOf(c)>>, <<u>>>>]
             o == CHOOSE f \in QuadOracles : TRUE
         IN  /\ call' = [fn |-> "calculate_conditional_distribution",
                         ConditionString |-> cs, MeasurementDict |-> MeasurementDict,
                         oracle |-> o]
             /\ loc' = calculate_conditional_distribution(cs, fit.DataDict, fit.weights,
                           fit.deg_per_dim, fit.JointDist, MeasurementDict, o)
             /\ ret' = IF loc'.exc # "" THEN [exc |-> loc'.exc]
                       ELSE [exc |-> "", Numerator |-> loc'.Numerator,
                             Denominator |-> loc'.Denominator]
             /\ fit' = [fit EXCEPT !.queries = @ + 1,
                                   !.DataDict.DataSequence = loc'.DataSequence]
    /\ pc' = "fitted"
    /\ UNCHANGED <<numeric_work, cmat>>

NextCondition == MLE_fit_whole_more_dimensions \/ Query_conditions_any_order

SpecCondition == Init /\ [][NextCondition]_vars

\* ---------------------------------------------------------------------------
\* C27: the pairing of the conditioning terms with their dimensions

\* the letters of the dimensions that are not conditioned on, in the order
\* of the dimensions
UnconditionedIndices ==
    SelectSeq(SubSeq(Alphabets, 1, fit.ndim),
              LAMBDA a : \A d \in 1..fit.ndim :
                  Alphabets[d] = a => fit.DataDict.ndim_char[d] \notin LettersOf(loc.RHSTerms))

\* C27: in calculate_conditional_distribution each conditioning term is
\* paired with its own dimension, in whatever order the keys are listed
\* after '|': the pass of the loop that takes the measurement and the
\* uncertainty of key c uses the bounds, the degree and the axis of the
\* dimension whose key is c, the slice of the joint distribution is taken at
\* the measurement of c along that dimension, and the axes that remain are
\* those of the dimensions not conditioned on, in their original order.
C27_TermsPairedWithOwnDimension ==
    QueryReturned =>
        /\ \A j \in 1..Len(loc.RHSTerms) :
             /\ fit.DataDict.ndim_char[loc.RHSDimensions[j]] = loc.RHSTerms[j]
             /\ \A k \in 1..Len(loc.InterpSlices[loc.RHSDimensions[j]]) :
                  loc.InterpSlices[loc.RHSDimensions[j]][k] =
                      log10(call.MeasurementDict[
                                fit.DataDict.ndim_char[loc.RHSDimensions[j]]][1][1])
        /\ loc.InputIndices = UnconditionedIndices

\* what holds: the pairing is right when the keys are listed in the order of
\* their dimensions, and the remaining axes are right in any case
C27_PairedWhenListedInOrder ==
    QueryReturned =>
        /\ (\A j \in 2..Len(loc.RHSTerms) :
               \E d, e \in 1..fit.ndim :
                   /\ d < e
                   /\ fit.DataDict.ndim_char[d] = loc.RHSTerms[j - 1]
                   /\ fit.DataDict.ndim_char[e] = loc.RHSTerms[j])
              => \A j \in 1..Len(loc.RHSTerms) :
                    fit.DataDict.ndim_char[loc.RHSDimensions[j]] = loc.RHSTerms[j]
        /\ loc.InputIndices = UnconditionedIndices

\* the query 'x|z,y': the measurement of z was taken for dimension y
C27_TermsCrossed ==
    /\ QueryReturned
    /\ loc.RHSTerms = <<"z", "y">>
    /\ loc.RHSDimensions = <<2, 3>>
    /\ loc.InterpSlices[2][1] = log10(call.MeasurementDict["z"][1][1])

=============================================================================
